---------------------------- MODULE Spec2Model ----------------------------
(***************************************************************************)
(* A model of the definition resolver of webapp/wiktionary.py: the         *)
(* extraction parser, the candidate generator, the form-of resolver, the   *)
(* generative fallback and the caching orchestrator                        *)
(* fetch_definition_cached.                                                *)
(*                                                                         *)
(* Text is modelled as TLA+ strings over ASCII.  An extract is the         *)
(* sequence of its lines (what extract.split("\n") yields).  Four          *)
(* characters of the source that are not ASCII are written with ASCII      *)
(* characters that occur nowhere else in the model's inputs:               *)
(*     "~" is the interpunct U+00B7, "|" is the broken bar U+00A6,         *)
(*     "}" and "{" are the triangle bullets U+25B8 and U+25BA.             *)
(* "^" is the letter kra U+0138, a lowercase letter that has no uppercase  *)
(* form: str.islower() holds of it and str.upper() leaves it unchanged.    *)
(* Alternatives of the source's regular expressions that contain other     *)
(* non-ASCII letters cannot match any line over this alphabet and are left *)
(* out of the literal tables.                                              *)
(***************************************************************************)
EXTENDS Integers, Sequences, FiniteSets, TLC

(***************************************************************************)
(* Python values: None, and truthiness of an optional value.               *)
(***************************************************************************)
None == [found |-> FALSE]
Some(v) == [found |-> TRUE, val |-> v]

(***************************************************************************)
(* Characters and strings.                                                 *)
(***************************************************************************)
UpperAlpha == "ABCDEFGHIJKLMNOPQRSTUVWXYZ"
LowerAlpha == "abcdefghijklmnopqrstuvwxyz"
DigitAlpha == "0123456789"

CharSet(s) == {SubSeq(s, i, i) : i \in 1..Len(s)}
UpperChars == CharSet(UpperAlpha)
LowerChars == CharSet(LowerAlpha)
DigitChars == CharSet(DigitAlpha)
\* \w of the re module, over ASCII
WordChars == UpperChars \cup LowerChars \cup DigitChars \cup {"_"}
\* \s of the re module, over the model's alphabet
SpaceChars == {" "}
\* lowercase letters outside ASCII that str.upper() maps to themselves
UncasedLowerChars == {"^"}

ToLowerMap == [c \in UpperChars |->
                 LET i == CHOOSE j \in 1..Len(UpperAlpha) : SubSeq(UpperAlpha, j, j) = c
                 IN  SubSeq(LowerAlpha, i, i)]
ToUpperMap == [c \in LowerChars |->
                 LET i == CHOOSE j \in 1..Len(LowerAlpha) : SubSeq(LowerAlpha, j, j) = c
                 IN  SubSeq(UpperAlpha, i, i)]
LowerCh(c) == IF c \in UpperChars THEN ToLowerMap[c] ELSE c
UpperCh(c) == IF c \in LowerChars THEN ToUpperMap[c] ELSE c

\* s[i-1:i] and s[i-1:] of Python (1-based i): empty beyond the end
Ch(s, i) == IF i >= 1 /\ i <= Len(s) THEN SubSeq(s, i, i) ELSE ""
From(s, i) == IF i > Len(s) THEN "" ELSE SubSeq(s, IF i < 1 THEN 1 ELSE i, Len(s))
Take(s, n) == SubSeq(s, 1, IF n < Len(s) THEN n ELSE Len(s))

RECURSIVE Lower(_)
Lower(s) ==
    IF Len(s) <= 1 THEN LowerCh(s)
    ELSE Lower(SubSeq(s, 1, Len(s) \div 2)) \o Lower(SubSeq(s, Len(s) \div 2 + 1, Len(s)))

RECURSIVE Upper(_)
Upper(s) ==
    IF Len(s) <= 1 THEN UpperCh(s)
    ELSE Upper(SubSeq(s, 1, Len(s) \div 2)) \o Upper(SubSeq(s, Len(s) \div 2 + 1, Len(s)))

StartsWith(s, p) == Len(s) >= Len(p) /\ SubSeq(s, 1, Len(p)) = p
EndsWith(s, p) == Len(s) >= Len(p) /\ SubSeq(s, Len(s) - Len(p) + 1, Len(s)) = p
\* re.IGNORECASE match of a literal at the start of s
StartsWithCI(s, p) == StartsWith(Lower(s), Lower(p))
Contains(s, p) == \E i \in 1..(Len(s) - Len(p) + 1) : SubSeq(s, i, i + Len(p) - 1) = p

\* length of the longest prefix of s whose characters are all in cls
RECURSIVE RunLen(_, _)
RunLen(s, cls) == IF s = "" \/ Ch(s, 1) \notin cls THEN 0 ELSE 1 + RunLen(From(s, 2), cls)

\* str.strip(), str.rstrip() and str.lstrip() over the model's whitespace
LStrip(s) == From(s, RunLen(s, SpaceChars) + 1)
RECURSIVE RStrip(_)
RStrip(s) == IF s # "" /\ Ch(s, Len(s)) \in SpaceChars THEN RStrip(SubSeq(s, 1, Len(s) - 1)) ELSE s
Strip(s) == RStrip(LStrip(s))

\* \b after a match that ended with a word character: the rest does not go on
\* with a word character
BoundaryAfterWord(rest) == rest = "" \/ Ch(rest, 1) \notin WordChars

\* some literal of lits is a prefix of s, ignoring case (an alternation without \b)
AnyPrefixCI(s, lits) == \E l \in lits : StartsWithCI(s, l)
\* the same with \b after the literal
AnyPrefixCIB(s, lits) == \E l \in lits : StartsWithCI(s, l) /\ BoundaryAfterWord(From(s, Len(l) + 1))


(***************************************************************************)
(* parse_wikt_definition and _fallback_extract_definition.                 *)
(***************************************************************************)
\* number of "=" a line starts with
EqRun(line) == RunLen(line, {"="})

\* "^={2,4}\s*" followed by a pattern that cannot start with "=" or a space:
\* the text that pattern is matched against, when the line starts with 2 to 4
\* "=" (with 5 or more, every split leaves an "=" in front of the pattern)
HeaderBody(line) == LStrip(From(line, EqRun(line) + 1))
IsHeader24(line) == EqRun(line) >= 2 /\ EqRun(line) <= 4

\* skip_sections of _fallback_extract_definition (re.IGNORECASE)
SkipSectionLits ==
    {"Etymology", "Pronunciation", "Etym", "Pronunc", "References", "See also",
     "External", "Anagrams", "Derived", "Related", "Translations", "Etimologia",
     "Herkunft"}
skip_sections(line) == IsHeader24(line) /\ AnyPrefixCI(HeaderBody(line), SkipSectionLits)

\* one line of the loop of _fallback_extract_definition: the new after_header
\* flag and the value returned at this line, if any.  word is None or Some(w).
WordTruthy(word) == word.found /\ word.val # ""

FallbackMetaLits == {"IPA", "Rhymes", "Homophones", "[", "//", "\\"}

FallbackLine(raw, word, after_header) ==
    LET line == Strip(raw) IN
    IF line = "" THEN [flag |-> after_header, ret |-> None]
    ELSE IF StartsWith(line, "==") THEN [flag |-> ~skip_sections(line), ret |-> None]
    ELSE IF ~after_header THEN [flag |-> after_header, ret |-> None]
    ELSE IF \E l \in FallbackMetaLits : StartsWith(line, l) THEN [flag |-> after_header, ret |-> None]
    ELSE IF WordTruthy(word) /\ Lower(line) = Lower(word.val) THEN [flag |-> after_header, ret |-> None]
    ELSE IF Len(line) > 5 /\ Len(line) < 300 THEN [flag |-> after_header, ret |-> Some(Take(line, 300))]
    ELSE [flag |-> after_header, ret |-> None]

RECURSIVE FallbackFrom(_, _, _, _)
FallbackFrom(lines, i, word, after_header) ==
    IF i > Len(lines) THEN None
    ELSE LET r == FallbackLine(lines[i], word, after_header) IN
         IF r.ret.found THEN r.ret ELSE FallbackFrom(lines, i + 1, word, r.flag)

_fallback_extract_definition(extract, word) == FallbackFrom(extract, 1, word, FALSE)

\* the headword of the page title: the first line matching ^==\s*(.+?)\s*==\s*$
TitleMatch(raw) ==
    LET line == Strip(raw) IN
    IF StartsWith(line, "==") /\ EndsWith(line, "==") /\ Len(line) >= 5
    THEN Some(Strip(SubSeq(line, 3, Len(line) - 2)))
    ELSE None

RECURSIVE InferWord(_, _)
InferWord(lines, i) ==
    IF i > Len(lines) THEN None
    ELSE IF TitleMatch(lines[i]).found THEN TitleMatch(lines[i])
    ELSE InferWord(lines, i + 1)

\* defn_headers (re.IGNORECASE).  Substantiv\w*\b and Adjektiv\w*\b match
\* whenever their literal does (the greedy \w* stops at a boundary); "isim"
\* and "Sifat" are the ASCII strings the dotted/dotless-i literals match.
DefnHeaderLits ==
    {"Noun", "Verb", "Adjective", "Adverb", "Pronoun", "Preposition",
     "Conjunction", "Interjection", "Nom commun", "Verbe", "Adjectif", "Adverbe",
     "Forme de verbe", "Forme de nom commun", "Verbo", "Adjetivo", "Adverbio",
     "Forma adjetiva", "Forma sustantiva", "Forma verbal", "Substantivo",
     "Sostantivo", "Aggettivo", "Substantiv", "Adjektiv", "Substantiivi",
     "Adjektiivi", "Verbi", "Adverbi", "Pronomini", "Daiktavardis", "Ige",
     "Anv-kadarn", "isim", "Eylem", "Sifat", "Bijvoeglijk naamwoord",
     "Zelfstandig naamwoord", "Werkwoord", "Imenica", "Glagol", "Pridjev",
     "Prilog", "Samostalnik", "Pridevnik", "Adjectiv", "Sloveso", "Adjectiu",
     "Nomina", "Verba", "Adjektiva"}
\* the alternatives written with a trailing \b
DefnHeaderLitsB == {"Sustantivo", "Verb", "Ad", "Nom"}

defn_headers(line) ==
    /\ IsHeader24(line)
    /\ \/ AnyPrefixCI(HeaderBody(line), DefnHeaderLits)
       \/ AnyPrefixCIB(HeaderBody(line), DefnHeaderLitsB)

\* ^(lit)\s*:?\s*$ on a stripped line
MarkerLine(line, lits) ==
    \E l \in lits :
        /\ StartsWithCI(line, l)
        /\ LET rest == LStrip(From(line, Len(l) + 1)) IN rest = "" \/ rest = ":"

DefnTextMarkerLits == {"Bedeutungen", "znaczenia"}
defn_text_markers(line) == MarkerLine(line, DefnTextMarkerLits)

EndMarkerLits ==
    {"Herkunft", "Synonyme", "Antonyme", "Oberbegriffe", "Beispiele", "odmiana",
     "kolokacje", "synonimy", "antonimy", "wyrazy pokrewne"}
end_markers(line) == MarkerLine(line, EndMarkerLits)

SkipLineLits ==
    {"=", "IPA", "Rhymes:", "Homophones:", "wymowa:", "Prononciation",
     "Aussprache", "Worttrennung", "Silbentrennung", "Reime", "Etimologia",
     "Etymology", "Herkunft", "Synonym", "Antonym", "Translation",
     "Oberbegriffe", "Beispiele", "Examples", "Uso:", "odmiana:", "kolokacje:",
     "synonimy:", "antonimy:", "hiperonimy:", "hiponimy:", "holonimy:",
     "meronimy:", "wyrazy pokrewne:", "etymologia:", "Cognate ", "From ", "Du ",
     "Del ", "Do ", "Uit ", "Vom ", "Van ", "Derived ", "Compare ", "rzeczownik",
     "przymiotnik", "czasownik", "Deklinacija", "Konjugacija"}
skip_line(line) == AnyPrefixCI(line, SkipLineLits)

\* ^={2,4}\s*\S on a stripped line: any line of 3 or more characters that
\* starts with "=="
AnyHeader(line) == StartsWith(line, "==") /\ Len(line) > 2

\* [a-z...] class of the phonetic and gender headword patterns, with
\* re.IGNORECASE, over the model's alphabet ("~" is the interpunct)
PhonClass == LowerChars \cup UpperChars \cup {".", "~"}

\* re.escape(word) + r"\s*\("
HeadwordParen(line, w) ==
    StartsWithCI(line, w) /\ StartsWith(LStrip(From(line, Len(w) + 1)), "(")

\* re.escape(word) + r"\s+[mfn.cMFN.C]\b"
HeadwordGender(line, w) ==
    /\ StartsWithCI(line, w)
    /\ LET rest == From(line, Len(w) + 1)
           k == RunLen(rest, SpaceChars)
       IN  /\ k >= 1
           /\ Lower(Ch(rest, k + 1)) \in {"m", "f", "n", "c"}
           /\ BoundaryAfterWord(From(rest, k + 2))

\* ^\S+\s*| with "|" the broken bar
InflectionBar(line) ==
    LET r == RunLen(line, CharSet(line) \ SpaceChars)
        s == RunLen(From(line, r + 1), SpaceChars)
    IN  \/ \E j \in 2..r : Ch(line, j) = "|"
        \/ (r >= 1 /\ Ch(line, r + s + 1) = "|")

\* .*Plural\s*:
PluralColon(line) ==
    \E i \in 1..Len(line) :
        /\ StartsWith(From(line, i), "Plural")
        /\ StartsWith(LStrip(From(line, i + 6)), ":")

\* ^[class]+\s*\\
PhoneticHeadword(line) ==
    LET r == RunLen(line, PhonClass) IN
    r >= 1 /\ StartsWith(LStrip(From(line, r + 1)), "\\")

\* ^\w+\s*\(?\s*approfondimento
Approfondimento(line) ==
    LET r == RunLen(line, WordChars) IN
    \E i \in 1..r :
        LET a == LStrip(From(line, i + 1))
            b == IF StartsWith(a, "(") THEN LStrip(From(a, 2)) ELSE a
        IN  /\ (i < r => StartsWithCI(From(line, i + 1), "approfondimento"))
            /\ (StartsWithCI(a, "approfondimento") \/ StartsWithCI(b, "approfondimento"))

\* ^(de|het|een|die|das|der)\s+\w+\s+[vmfno]\b
DutchHeadword(line) ==
    \E art \in {"de", "het", "een", "die", "das", "der"} :
        /\ StartsWithCI(line, art)
        /\ LET r1 == From(line, Len(art) + 1)
               k1 == RunLen(r1, SpaceChars)
               r2 == From(r1, k1 + 1)
               k2 == RunLen(r2, WordChars)
               r3 == From(r2, k2 + 1)
               k3 == RunLen(r3, SpaceChars)
           IN  /\ k1 >= 1 /\ k2 >= 1 /\ k3 >= 1
               /\ Lower(Ch(r3, k3 + 1)) \in {"v", "m", "f", "n", "o"}
               /\ BoundaryAfterWord(From(r3, k3 + 2))

\* ^[class]+,?\s*(masculino|feminino|comum|neutro|masculin|m\s|f\s|m sing|f sing)
GenderLits == {"masculino", "feminino", "comum", "neutro", "masculin", "m ", "f ", "m sing", "f sing"}
GenderHeadword(line) ==
    LET r == RunLen(line, PhonClass) IN
    \E i \in 1..r :
        LET a == From(line, i + 1)
            b == IF StartsWith(a, ",") THEN From(a, 2) ELSE a
        IN  \/ AnyPrefixCI(a, GenderLits)
            \/ (i = r /\ AnyPrefixCI(LStrip(a), GenderLits))
            \/ (i = r /\ AnyPrefixCI(LStrip(b), GenderLits))

\* ^\w+\s*\((plural|third-person|present|past|pl\.)\b
FormHeadword(line) ==
    LET r == RunLen(line, WordChars)
        a == LStrip(From(line, r + 1))
    IN  /\ r >= 1
        /\ StartsWith(a, "(")
        /\ \/ AnyPrefixCIB(From(a, 2), {"plural", "third-person", "present", "past"})
           \/ (StartsWithCI(From(a, 2), "pl.") /\ Len(a) >= 5 /\ Ch(a, 5) \in WordChars)

\* ^\w+\s+\(\d+
DeclensionHeadword(line) ==
    LET r == RunLen(line, WordChars)
        a == From(line, r + 1)
        k == RunLen(a, SpaceChars)
    IN  r >= 1 /\ k >= 1 /\ Ch(a, k + 1) = "(" /\ Ch(a, k + 2) \in DigitChars

\* ^\[(\d+)\]\s+(.+) : group 2, or None
BracketSense(line) ==
    LET d == RunLen(From(line, 2), DigitChars)
        a == From(line, d + 3)
        k == RunLen(a, SpaceChars)
    IN  IF StartsWith(line, "[") /\ d >= 1 /\ Ch(line, d + 2) = "]" /\ k >= 1 /\ Len(a) > k
        THEN Some(From(a, k + 1)) ELSE None

\* ^\([\d.]+\)\s+(.+) : group 1, or None
DottedSense(line) ==
    LET d == RunLen(From(line, 2), DigitChars \cup {"."})
        a == From(line, d + 3)
        k == RunLen(a, SpaceChars)
    IN  IF StartsWith(line, "(") /\ d >= 1 /\ Ch(line, d + 2) = ")" /\ k >= 1 /\ Len(a) > k
        THEN Some(From(a, k + 1)) ELSE None

\* ^\d+\.?\s+(.*) : group 1, or None
BareSense(line) ==
    LET d == RunLen(line, DigitChars)
        a == IF Ch(line, d + 1) = "." THEN From(line, d + 2) ELSE From(line, d + 1)
        k == RunLen(a, SpaceChars)
    IN  IF d >= 1 /\ k >= 1 THEN Some(From(a, k + 1)) ELSE None

\* (zdrobn|zgrub|forma)\b
CrossRefLabel(defn) == AnyPrefixCIB(defn, {"zdrobn", "zgrub", "forma"})

Continue(flag) == [flag |-> flag, ret |-> None]
Return(flag, text) == [flag |-> flag, ret |-> Some(text)]

\* the part of the loop body of parse_wikt_definition that is reached with
\* in_definition_section true (source lines 213-292), on a stripped line
DefinitionLine(line, word) ==
    IF skip_line(line) THEN None
    ELSE IF WordTruthy(word) /\ Lower(line) = Lower(word.val) THEN None
    ELSE IF WordTruthy(word) /\ HeadwordParen(line, word.val) THEN None
    ELSE IF WordTruthy(word) /\ HeadwordGender(line, word.val) THEN None
    ELSE IF InflectionBar(line) THEN None
    ELSE IF Contains(line, "~") \/ PluralColon(line) THEN None
    ELSE IF StartsWith(line, "\\") THEN None
    ELSE IF PhoneticHeadword(line) THEN None
    ELSE IF Approfondimento(line) THEN None
    ELSE IF DutchHeadword(line) THEN None
    ELSE IF GenderHeadword(line) THEN None
    ELSE IF FormHeadword(line) THEN None
    ELSE IF DeclensionHeadword(line) THEN None
    ELSE IF BracketSense(line).found /\ Len(BracketSense(line).val) > 5
         THEN Some(Take(Strip(BracketSense(line).val), 300))
    ELSE IF DottedSense(line).found
         THEN LET defn == Strip(DottedSense(line).val) IN
              IF CrossRefLabel(defn) THEN None
              ELSE IF Len(defn) > 5 THEN Some(Take(defn, 300))
              ELSE None
    ELSE IF BareSense(line).found /\ Len(BareSense(line).val) > 3
         THEN Some(Take(Strip(BareSense(line).val), 300))
    ELSE IF StartsWith(line, "}") \/ StartsWith(line, "{") THEN None
    ELSE IF Len(line) > 3 THEN Some(Take(line, 300))
    ELSE None

\* the tests of the loop body that reject a line of a definition section
\* (source lines 213-263 and 287)
RejectedLine(line, word) ==
    \/ skip_line(line)
    \/ WordTruthy(word) /\ Lower(line) = Lower(word.val)
    \/ WordTruthy(word) /\ HeadwordParen(line, word.val)
    \/ WordTruthy(word) /\ HeadwordGender(line, word.val)
    \/ InflectionBar(line)
    \/ Contains(line, "~") \/ PluralColon(line)
    \/ StartsWith(line, "\\")
    \/ PhoneticHeadword(line)
    \/ Approfondimento(line)
    \/ DutchHeadword(line)
    \/ GenderHeadword(line)
    \/ FormHeadword(line)
    \/ DeclensionHeadword(line)
    \/ StartsWith(line, "}") \/ StartsWith(line, "{")

\* variant: the loop body without the test of the flag (lines 210-211)
StructuredLineNoFlag(raw, word, in_definition_section) ==
    LET line == Strip(raw) IN
    IF line = "" THEN Continue(in_definition_section)
    ELSE IF defn_headers(line) THEN Continue(TRUE)
    ELSE IF defn_text_markers(line) THEN Continue(TRUE)
    ELSE IF end_markers(line) THEN Continue(FALSE)
    ELSE IF AnyHeader(line) THEN Continue(FALSE)
    ELSE [flag |-> in_definition_section, ret |-> DefinitionLine(line, word)]

\* one iteration of the loop of parse_wikt_definition (source lines 183-292):
\* the new in_definition_section flag and the value returned, if any
StructuredLine(raw, word, in_definition_section) ==
    LET line == Strip(raw) IN
    IF line = "" THEN Continue(in_definition_section)
    ELSE IF defn_headers(line) THEN Continue(TRUE)
    ELSE IF defn_text_markers(line) THEN Continue(TRUE)
    ELSE IF end_markers(line) THEN Continue(FALSE)
    ELSE IF AnyHeader(line) THEN Continue(FALSE)
    ELSE IF ~in_definition_section THEN Continue(FALSE)
    ELSE [flag |-> TRUE, ret |-> DefinitionLine(line, word)]

RECURSIVE StructuredFrom(_, _, _, _)
StructuredFrom(lines, i, word, flag) ==
    IF i > Len(lines) THEN None
    ELSE LET r == StructuredLine(lines[i], word, flag) IN
         IF r.ret.found THEN r.ret ELSE StructuredFrom(lines, i + 1, word, r.flag)

\* word is None (not supplied) or Some(w)
EffectiveWord(extract, word) == IF word.found THEN word ELSE InferWord(extract, 1)

parse_wikt_definition(extract, word) ==
    LET w == EffectiveWord(extract, word)
        s == StructuredFrom(extract, 1, w, FALSE)
    IN  IF s.found THEN s ELSE _fallback_extract_definition(extract, w)

(***************************************************************************)
(* Outcome of a Python call: a returned value or a raised exception.       *)
(***************************************************************************)
Returned(v) == [raised |-> FALSE, val |-> v]
Raised(e) == [raised |-> TRUE, exc |-> e]

(***************************************************************************)
(* _build_candidates.  In the tables "?" stands for a letter outside       *)
(* ASCII: it keeps the length of the suffix and matches no character of a  *)
(* word of the model.                                                      *)
(***************************************************************************)
LEMMA_SUFFIXES ==
    [tr |-> <<"mek", "mak">>,
     az |-> <<"m?k", "maq">>]

LEMMA_STRIP_RULES ==
    [es |-> << <<"es", "">>, <<"as", "a">>, <<"os", "o">>, <<"s", "">> >>,
     pt |-> << <<"?es", "?o">>, <<"es", "">>, <<"as", "a">>, <<"os", "o">>, <<"s", "">> >>,
     fr |-> << <<"eaux", "eau">>, <<"aux", "al">>, <<"es", "e">>, <<"s", "">> >>,
     it |-> << <<"chi", "co">>, <<"ghi", "go">>, <<"ni", "ne">>, <<"li", "le">>,
               <<"hi", "o">>, <<"i", "o">>, <<"e", "a">> >>,
     ca |-> << <<"ns", "n">>, <<"es", "">>, <<"s", "">> >>,
     ro |-> << <<"uri", "">>, <<"i", "">>, <<"e", "">> >>,
     de |-> << <<"ern", "">>, <<"en", "">>, <<"er", "">>, <<"e", "">> >>,
     nl |-> << <<"en", "">>, <<"er", "">>, <<"s", "">> >>,
     sv |-> << <<"arna", "">>, <<"orna", "">>, <<"erna", "">>, <<"ar", "">>,
               <<"er", "">>, <<"or", "">>, <<"en", "">>, <<"et", "">>, <<"na", "">> >>,
     nb |-> << <<"ene", "">>, <<"er", "">>, <<"et", "">> >>,
     nn |-> << <<"ane", "">>, <<"ar", "">>, <<"et", "">> >>,
     hr |-> << <<"ovima", "">>, <<"evima", "">>, <<"ovi", "">>, <<"evi", "">>,
               <<"a", "">>, <<"i", "">>, <<"e", "">> >>,
     sr |-> << <<"???", "">>, <<"???", "">>, <<"?", "">>, <<"?", "">>, <<"?", "">> >>,
     bg |-> << <<"?????", "?">>, <<"???", "">>, <<"???", "">>, <<"??", "">>,
               <<"??", "">>, <<"?", "">>, <<"?", "">> >>,
     ru |-> << <<"??", "">>, <<"??", "">>, <<"?", "">>, <<"?", "">>, <<"?", "">> >>,
     uk |-> << <<"??", "">>, <<"??", "">>, <<"?", "">>, <<"?", "">>, <<"?", "">> >>,
     cs |-> << <<"?", "">>, <<"ech", "">>, <<"y", "">>, <<"e", "">>, <<"i", "">> >>,
     sk |-> << <<"ov", "">>, <<"?ch", "">>, <<"y", "">>, <<"e", "">>, <<"i", "">> >>,
     sl |-> << <<"ov", "">>, <<"ev", "">>, <<"i", "">>, <<"e", "">>, <<"a", "">> >>,
     fi |-> << <<"ssa", "">>, <<"ss?", "">>, <<"sta", "">>, <<"st?", "">>,
               <<"lla", "">>, <<"ll?", "">>, <<"lta", "">>, <<"lt?", "">>,
               <<"n", "">>, <<"t", "">> >>,
     et |-> << <<"de", "">>, <<"te", "">>, <<"d", "">> >>,
     hu |-> << <<"ban", "">>, <<"ben", "">>, <<"nak", "">>, <<"nek", "">>,
               <<"k", "">>, <<"t", "">> >>]

\* dict.get(key, [])
GetList(table, key) == IF key \in DOMAIN table THEN table[key] ELSE <<>>

InSeq(v, seq) == \E i \in 1..Len(seq) : seq[i] = v

\* the loop over LEMMA_SUFFIXES (source lines 373-374), from entry i on
RECURSIVE AddSuffixes(_, _, _, _)
AddSuffixes(candidates, word, suffixes, i) ==
    IF i > Len(suffixes) THEN candidates
    ELSE AddSuffixes(Append(candidates, word \o suffixes[i]), word, suffixes, i + 1)

\* one rule of the stripping loop (source lines 377-380)
StripRule(candidates, word, strip_suffix, replacement) ==
    IF EndsWith(Lower(word), strip_suffix) /\ Len(word) > Len(strip_suffix)
    THEN LET base == SubSeq(word, 1, Len(word) - Len(strip_suffix)) \o replacement IN
         IF Len(base) >= 2 /\ ~InSeq(base, candidates) THEN Append(candidates, base)
         ELSE candidates
    ELSE candidates

RECURSIVE StripSuffixes(_, _, _, _)
StripSuffixes(candidates, word, rules, i) ==
    IF i > Len(rules) THEN candidates
    ELSE StripSuffixes(StripRule(candidates, word, rules[i][1], rules[i][2]), word, rules, i + 1)

\* word[0] raises IndexError on the empty string
_build_candidates(word, lang_code) ==
    IF word = "" THEN Raised("IndexError")
    ELSE LET c1 == <<word>>
             c2 == IF Ch(word, 1) \in LowerChars \cup UncasedLowerChars
                   THEN Append(c1, UpperCh(Ch(word, 1)) \o From(word, 2))
                   ELSE c1
             c3 == AddSuffixes(c2, word, GetList(LEMMA_SUFFIXES, lang_code), 1)
         IN  Returned(StripSuffixes(c3, word, GetList(LEMMA_STRIP_RULES, lang_code), 1))

(***************************************************************************)
(* strip_html, the form-of patterns and _follow_form_of.                   *)
(***************************************************************************)
\* index of the first ">" of s at or after position i, 0 if there is none
RECURSIVE FindGt(_, _)
FindGt(s, i) == IF i > Len(s) THEN 0 ELSE IF Ch(s, i) = ">" THEN i ELSE FindGt(s, i + 1)

\* re.sub(r"<[^>]+>", "", text)
RECURSIVE RemoveTags(_)
RemoveTags(s) ==
    IF ~Contains(s, "<") THEN s
    ELSE LET k == CHOOSE i \in 1..Len(s) : Ch(s, i) = "<" /\ \A j \in 1..(i - 1) : Ch(s, j) # "<" IN
         IF FindGt(s, k + 1) >= k + 2
         THEN SubSeq(s, 1, k - 1) \o RemoveTags(From(s, FindGt(s, k + 1) + 1))
         ELSE SubSeq(s, 1, k) \o RemoveTags(From(s, k + 1))

strip_html(text) == Strip(RemoveTags(text))

PersonLits == {"first-person", "first person", "second-person", "second person",
               "third-person", "third person"}

\* the qualifiers of _FORM_OF_RE
FormOfQualifiers ==
    {"feminine", "masculine", "neuter", "singular", "plural", "diminutive",
     "augmentative", "alternative", "comparative", "superlative", "past",
     "present", "gerund", "imperative", "infinitive", "nominative", "genitive",
     "dative", "accusative", "ablative", "instrumental"} \cup PersonLits
FormOfNouns == {"form", "plural", "tense", "participle", "conjugation"}
FormOfPreps == {"of", "de", "di", "du", "von", "van"}

\* the texts left after ((qualifier)\s+)* has consumed a prefix of s
RECURSIVE AfterQualifiers(_)
AfterQualifiers(s) ==
    {s} \cup UNION { AfterQualifiers(LStrip(From(s, Len(q) + 1))) :
                       q \in {l \in FormOfQualifiers :
                                /\ StartsWithCI(s, l)
                                /\ Ch(s, Len(l) + 1) \in SpaceChars} }

\* the texts left after the optional noun and \s*
AfterNoun(s) ==
    {LStrip(s)} \cup {LStrip(From(s, Len(n) + 1)) : n \in {l \in FormOfNouns : StartsWithCI(s, l)}}

\* (of|de|di|du|von|van)\s+(\w+) at the start of s: the captured word
BaseAfterPrep(s) ==
    {LET a == From(s, Len(p) + 1)
         k == RunLen(a, SpaceChars)
     IN  SubSeq(a, k + 1, k + RunLen(From(a, k + 1), WordChars)) :
       p \in {l \in FormOfPreps :
                /\ StartsWithCI(s, l)
                /\ LET a == From(s, Len(l) + 1)
                       k == RunLen(a, SpaceChars)
                   IN  k >= 1 /\ RunLen(From(a, k + 1), WordChars) >= 1}}

\* _FORM_OF_RE.match(definition): group 1, or None
FormOfBases(definition) ==
    UNION { UNION { BaseAfterPrep(n) : n \in AfterNoun(q) } : q \in AfterQualifiers(definition) }
_FORM_OF_RE(definition) ==
    IF FormOfBases(definition) = {} THEN None
    ELSE Some(CHOOSE b \in FormOfBases(definition) : TRUE)

\* the pattern of the English tier (source lines 623-630)
FormOfHeads ==
    {"synonym", "plural", "feminine", "masculine", "diminutive", "augmentative",
     "alternative", "archaic", "obsolete", "dated", "rare", "singular", "past",
     "present", "comparative", "superlative", "nominative", "genitive", "dative",
     "accusative", "instrumental", "imperative", "infinitive"} \cup PersonLits
FormOfTails == {"form", "tense", "participle"}

\* the texts left after the first group of the pattern
AfterHead(s) ==
    LET r == RunLen(s, WordChars) IN
    {From(s, Len(h) + 1) : h \in {l \in FormOfHeads : StartsWithCI(s, l)}}
    \cup {From(s, Len(t) + 1) : t \in {l \in FormOfTails : StartsWithCI(s, l)}}
    \cup {From(s, r + 1 + Len(t) + 1) :
            t \in {l \in FormOfTails :
                     r >= 1 /\ Ch(s, r + 1) = " " /\ StartsWithCI(From(s, r + 2), l)}}

\* \s+(?:form\s+)?of\s+ at the start of s
OfTail(s) ==
    LET k == RunLen(s, SpaceChars)
        a == From(s, k + 1)
        f == From(a, 5)
        kf == RunLen(f, SpaceChars)
        IsOf(t) == StartsWithCI(t, "of") /\ Ch(t, 3) \in SpaceChars
    IN  k >= 1 /\ (IsOf(a) \/ (StartsWithCI(a, "form") /\ kf >= 1 /\ IsOf(From(f, kf + 1))))

IsFormOfText(clean_def) == \E r \in AfterHead(clean_def) : OfTail(r)

(***************************************************************************)
(* fetch_native_wiktionary, fetch_english_definition, fetch_llm_definition *)
(* and the tiers of fetch_definition_cached: the pure parts.               *)
(***************************************************************************)
NEGATIVE_CACHE_TTL == 7 * 24 * 3600

WIKT_LANG_MAP == [nb |-> "no", nn |-> "no", hyw |-> "hy", ckb |-> "ku"]
WiktLang(lang_code) == IF lang_code \in DOMAIN WIKT_LANG_MAP THEN WIKT_LANG_MAP[lang_code] ELSE lang_code

LLM_LANG_NAMES ==
    [en |-> "English", fi |-> "Finnish", de |-> "German", fr |-> "French",
     es |-> "Spanish", it |-> "Italian", pt |-> "Portuguese", nl |-> "Dutch",
     sv |-> "Swedish", nb |-> "Norwegian Bokm?l", nn |-> "Norwegian Nynorsk",
     da |-> "Danish", pl |-> "Polish", ru |-> "Russian", uk |-> "Ukrainian",
     bg |-> "Bulgarian", hr |-> "Croatian", sr |-> "Serbian",
     sl |-> "Slovenian", cs |-> "Czech", sk |-> "Slovak", ro |-> "Romanian",
     hu |-> "Hungarian", tr |-> "Turkish", az |-> "Azerbaijani",
     et |-> "Estonian", lt |-> "Lithuanian", lv |-> "Latvian",
     el |-> "Greek", ka |-> "Georgian", hy |-> "Armenian", he |-> "Hebrew",
     ar |-> "Arabic", fa |-> "Persian", vi |-> "Vietnamese",
     id |-> "Indonesian", ms |-> "Malay", ca |-> "Catalan",
     gl |-> "Galician", eu |-> "Basque", br |-> "Breton", oc |-> "Occitan",
     la |-> "Latin", ko |-> "Korean", sq |-> "Albanian", mk |-> "Macedonian",
     is |-> "Icelandic", ga |-> "Irish", cy |-> "Welsh", mt |-> "Maltese",
     hyw |-> "Western Armenian", ckb |-> "Central Kurdish"]

\* Python truthiness of an optional string
Truthy(opt) == opt.found /\ opt.val # ""

\* the dict returned by fetch_native_wiktionary (source lines 408-412)
NativeResult(defn, lang_code, try_word) ==
    [definition |-> defn,
     source |-> "native",
     url |-> Some("https://" \o WiktLang(lang_code) \o ".wiktionary.org/wiki/" \o try_word)]

\* page.get("extract", "").strip() is empty
BlankExtract(extract) == \A i \in 1..Len(extract) : Strip(extract[i]) = ""

\* the body of the candidate loop of fetch_native_wiktionary for one answer
\* of the network: the result, or None to go on with the next candidate
NativeAttempt(outcome, lang_code, try_word) ==
    IF outcome.kind # "page" \/ BlankExtract(outcome.extract) THEN None
    ELSE LET defn == parse_wikt_definition(outcome.extract, Some(try_word)) IN
         IF Truthy(defn) THEN Some(NativeResult(defn.val, lang_code, try_word)) ELSE None

\* variant: the English tier stores the definition at its full length
EnglishResultUncut(defn, pos, try_word) ==
    [definition |-> defn,
     part_of_speech |-> pos,
     source |-> "english",
     url |-> Some("https://en.wiktionary.org/wiki/" \o try_word)]

\* the dict built by the English tier (source lines 636-649)
EnglishResult(defn, pos, try_word) ==
    [definition |-> Take(defn, 300),
     part_of_speech |-> pos,
     source |-> "english",
     url |-> Some("https://en.wiktionary.org/wiki/" \o try_word)]

\* variant: a form-of definition is accepted like any other definition
RECURSIVE ScanDefsNoFollow(_)
ScanDefsNoFollow(defs) ==
    IF defs = <<>> THEN [kind |-> "none"]
    ELSE LET clean_def == strip_html(Head(defs).definition) IN
         IF clean_def = "" THEN ScanDefsNoFollow(Tail(defs))
         ELSE [kind |-> "found", definition |-> clean_def,
               pos |-> Head(defs).partOfSpeech]

\* the loop over the definitions of one English answer (source lines
\* 615-654), up to the first definition that ends it or needs a lookup:
\*   found  - a normal definition, accepted
\*   follow - a form-of definition whose base word is to be looked up
\*   none   - no definition left
RECURSIVE ScanDefs(_)
ScanDefs(defs) ==
    IF defs = <<>> THEN [kind |-> "none"]
    ELSE LET clean_def == strip_html(Head(defs).definition) IN
         IF clean_def = "" THEN ScanDefs(Tail(defs))
         ELSE IF IsFormOfText(clean_def)
              THEN IF _FORM_OF_RE(clean_def).found
                   THEN [kind |-> "follow", text |-> clean_def,
                         base_word |-> _FORM_OF_RE(clean_def).val,
                         pos |-> Head(defs).partOfSpeech, rest |-> Tail(defs)]
                   ELSE ScanDefs(Tail(defs))
              ELSE [kind |-> "found", definition |-> clean_def,
                    pos |-> Head(defs).partOfSpeech]

\* fetch_english_definition for one answer of the network
RECURSIVE FirstCleanDef(_)
FirstCleanDef(defs) ==
    IF defs = <<>> THEN None
    ELSE IF strip_html(Head(defs).definition) # ""
         THEN Some(Take(strip_html(Head(defs).definition), 200))
         ELSE FirstCleanDef(Tail(defs))
fetch_english_definition(outcome) ==
    IF outcome.kind = "data" THEN FirstCleanDef(outcome.defs) ELSE None

\* variant: the language allow-list is not consulted
LlmGateKeyOnly(key_present, lang_code) == key_present

\* the gates of fetch_llm_definition (source lines 526-531)
LlmGateOpen(key_present, lang_code) == key_present /\ lang_code \in DOMAIN LLM_LANG_NAMES

\* fetch_llm_definition for one answer of the network (source lines 555-566)
LlmResult(outcome) ==
    IF outcome.kind # "text" THEN None
    ELSE LET text == Strip(outcome.text) IN
         IF Contains(Upper(text), "UNKNOWN") \/ Len(text) < 3 THEN None
         ELSE Some([definition |-> Take(text, 300), source |-> "ai", url |-> None])

(***************************************************************************)
(* The cache: one file per (language, lowercased word).                    *)
(***************************************************************************)
Absent == [kind |-> "absent"]
EmptyFile == [kind |-> "empty"]
Garbled == [kind |-> "garbled"]
Json(v) == [kind |-> "json", val |-> v]
\* a file that open(cache_path, "r") cannot read, a file whose content is
\* JSON but no object, and the empty object
Unreadable == [kind |-> "unreadable"]
NonObject == [kind |-> "nonobject"]
EmptyObject == Json(<<>>)
MalformedFiles == {Unreadable, Garbled, EmptyFile, NonObject, EmptyObject}

\* os.path.join(lang_code, word.lower() + ".json"), relative to cache_dir
\* (source lines 578-579); a component that starts with "/" discards what
\* precedes it
cache_path(lang_code, word) ==
    IF StartsWith(Lower(word), "/") THEN Lower(word) \o ".json"
    ELSE lang_code \o "/" \o Lower(word) \o ".json"

\* the components of a path
RECURSIVE SplitPath(_)
SplitPath(s) ==
    IF ~Contains(s, "/") THEN <<s>>
    ELSE LET k == CHOOSE i \in 1..Len(s) : Ch(s, i) = "/" /\ \A j \in 1..(i - 1) : Ch(s, j) # "/"
         IN  <<SubSeq(s, 1, k - 1)>> \o SplitPath(From(s, k + 1))
\* the components left when the file system has followed "." and ".."
RECURSIVE Collapse(_, _)
Collapse(segs, stack) ==
    IF segs = <<>> THEN stack
    ELSE LET h == Head(segs) IN
         Collapse(Tail(segs),
                  IF h \in {"", "."} THEN stack
                  ELSE IF h = ".." /\ stack # <<>> /\ stack[Len(stack)] # ".."
                       THEN SubSeq(stack, 1, Len(stack) - 1)
                       ELSE Append(stack, h))
RECURSIVE JoinPath(_)
JoinPath(segs) ==
    IF segs = <<>> THEN ""
    ELSE IF Len(segs) = 1 THEN segs[1]
    ELSE segs[1] \o "/" \o JoinPath(Tail(segs))
\* the file that open(cache_path) and os.path.exists(cache_path) reach
cache_file(lang_code, word) ==
    JoinPath(Collapse(SplitPath(cache_path(lang_code, word)), <<>>))

NegativeMarker(t) == [not_found |-> TRUE, ts |-> t]
IsNegative(v) == "not_found" \in DOMAIN v /\ v.not_found
IsPositiveFile(file) == file.kind = "json" /\ ~IsNegative(file.val)
IsNegativeFile(file) == file.kind = "json" /\ IsNegative(file.val)
EntryTs(v) == IF "ts" \in DOMAIN v THEN v.ts ELSE 0

\* variant: an entry exactly as old as the TTL still counts as valid
NegativeFreshInclusive(v, t) == t - EntryTs(v) <= NEGATIVE_CACHE_TTL

\* the negative entry is still valid at time t (source line 589)
NegativeFresh(v, t) == t - EntryTs(v) < NEGATIVE_CACHE_TTL

\* variant: the cache check answers from positive entries only
CacheLookupPositiveOnly(file, t) ==
    IF file.kind = "json" /\ ~IsNegative(file.val) THEN "pos" ELSE "miss"

\* the cache check (source lines 582-595) on the file of the key at time t:
\* "pos" returns the entry, "neg" returns None, "miss" goes on to the tiers.
\* A file that json.load cannot read raises, and the exception is swallowed.
CacheLookup(file, t) ==
    IF file.kind # "json" THEN "miss"
    ELSE IF IsNegative(file.val)
         THEN IF NegativeFresh(file.val, t) THEN "neg" ELSE "miss"
         ELSE IF file.val = <<>> THEN "miss" ELSE "pos"

\* what json.dump writes (source line 667)
CacheContent(result, t) == Json(IF result.found THEN result.val ELSE NegativeMarker(t))

\* the file after this call's buffered text is flushed at offset 0: the call
\* truncated the file when it opened it; if another writer has flushed since,
\* the bytes of the longer text stay behind the shorter one
AfterFlush(file, content) ==
    IF file.kind = "unreadable" THEN {file}
    ELSE IF file.kind = "empty" \/ file = content THEN {content} ELSE {content, Garbled}

(***************************************************************************)
(* Inputs and answers of the environment.                                  *)
(***************************************************************************)
Procs == {"p1", "p2"}
SeqProcs == {"p1"}

Words == {"koira", "Koira", ""}
Langs == {"fi"}
ConcWords == {"koira", ""}
ConcLangs == {"fi"}
MalformedWords == {"koira"}
\* calls for two languages, with a word that holds a path to the entry of
\* the other language
ScopeWords == {"koira", "../fi/koira"}
ScopeLangs == {"fi", "sv"}
Keys == {cache_file(l, w) : l \in Langs \cup ScopeLangs, w \in Words \cup ScopeWords}

\* the clock advances at most MaxTicks times, by a second or by a second
\* less than the TTL, so that an entry can be exactly as old as the TTL
MaxTicks == 2
TickSteps == {1, NEGATIVE_CACHE_TTL - 1}

NativeExtracts ==
    { <<"== koira ==", "=== Substantiivi ===", "koira  (10)",
        "nelijalkainen kotielain, joka haukkuu">>,
      <<"== koira ==", "=== Substantiivi ===", "koira  (10)">>,
      <<"== koira ==", "=== Substantiivi ===", "1 koira">>,
      <<"== koira ==", "=== Etymology ===", "From Latin wordus.">> }
NativeOutcomes ==
    {[kind |-> "error"], [kind |-> "missing"]}
    \cup {[kind |-> "page", extract |-> e] : e \in NativeExtracts}

Defn(text) == [partOfSpeech |-> "Noun", definition |-> text]
EnglishDefLists ==
    { <<Defn("plural of gala")>>,
      <<Defn("<b>dog</b>, a domestic animal")>>,
      <<Defn("plural of gala"), Defn(""), Defn("Koira.")>>,
      <<Defn("synonym of hound"), Defn("rare form of koira")>> }
EnglishOutcomes ==
    {[kind |-> "error"]} \cup {[kind |-> "data", defs |-> d] : d \in EnglishDefLists}

LlmTexts == {"UNKNOWN", "noun: a dog", "koira"}
LlmOutcomes == {[kind |-> "error"]} \cup {[kind |-> "text", text |-> t] : t \in LlmTexts}

\* the extracts and words the parser is run on
ParseExtracts ==
    NativeExtracts \cup
    { <<>>,
      <<"== koira ==", "=== Substantiivi ===", "koira">>,
      <<"== word ==", "=== Noun ===", "word (plural words)">>,
      <<"== koira ==", "=== Substantiivi ===", "[1] koira">>,
      <<"== koira ==", "=== Substantiivi ===", "koira.">>,
      <<"== Haus (Deutsch) ==", "=== Substantiv, n ===", "Haus, Plural: Hauser",
        "[1] Gebaude, das zum Wohnen dient">>,
      <<"== dom ==", "znaczenia:", "(1.1) budynek mieszkalny">>,
      <<"== Hund ==", "=== Substantiv ===", "[1] Synonyme: Koter, Tole">>,
      <<"intro line before any header", "== koira ==", "=== Etymology ===",
        "From Proto-Finnic", "=== Substantiivi ===", "", "1 abcd", "[1] abc",
        "a dog, a domestic animal">> }
ParseWords == {None, Some("koira"), Some("word"), Some("Haus"), Some("dom"), Some("Hund")}

\* the words and languages the candidate generator is run on: with and
\* without a table, stems of one character, capitals, the empty word
BuildWords == {"", "a", "koira", "Haus", "casas", "xas", "as", "besle", "^bc", "katzen", "mek", "xi", "casases", "hradech"}
BuildLangs == {"en", "fi", "es", "de", "tr", "it", "cs", "xx"}

\* the answers two overlapping calls can get: the native source has the page
\* or not, the English and the generative source are out of reach
ConcNativeOutcomes ==
    {[kind |-> "missing"],
     [kind |-> "page", extract |-> <<"== koira ==", "=== Substantiivi ===", "koira  (10)",
                                     "nelijalkainen kotielain, joka haukkuu">>]}
ConcEnglishOutcomes == {[kind |-> "error"]}
ConcLlmOutcomes == {[kind |-> "error"]}

\* the answers of calls without a cache directory: also texts longer than
\* any limit of the code, and an answer with two form-of definitions
LongLen == 301
\* words of seven letters and a space, from position i to position j
RECURSIVE Fill(_, _)
Fill(i, j) ==
    IF i > j THEN ""
    ELSE IF i = j THEN (IF i % 8 = 0 THEN " " ELSE "a")
    ELSE Fill(i, (i + j) \div 2) \o Fill((i + j) \div 2 + 1, j)
LongText == Fill(1, LongLen)
TierLangs == {"fi", "xx"}
TierNativeOutcomes ==
    NativeOutcomes
    \cup {[kind |-> "page", extract |-> <<"== koira ==", "=== Substantiivi ===", LongText>>]}
TierEnglishOutcomes ==
    EnglishOutcomes
    \cup {[kind |-> "data", defs |-> <<Defn(LongText)>>],
          [kind |-> "data", defs |-> <<Defn("plural of gala"), Defn("genitive plural of koira")>>],
          [kind |-> "data", defs |-> <<Defn("plural of gala"), Defn("singular form of koirat")>>]}
TierLlmOutcomes ==
    LlmOutcomes \cup {[kind |-> "text", text |-> LongText], [kind |-> "text", text |-> " ab "]}

\* The pure functions above, tabulated once over the inputs of the model.
AllWords == Words \cup {Lower(w) : w \in Words} \cup ScopeWords
AllLangs == Langs \cup TierLangs \cup ScopeLangs
KeyTable == [x \in (AllLangs \cup {""}) \X AllWords |-> cache_file(x[1], x[2])] @@ <<>>
\* the cache entry of a call: the file its cache_path denotes
CacheKey(lang_code, word) == KeyTable[<<lang_code, word>>]
CandidatesTable == [x \in AllWords \X AllLangs |-> _build_candidates(x[1], x[2])] @@ <<>>
Candidates(word, lang_code) == CandidatesTable[<<word, lang_code>>]
TryWords ==
    UNION {IF CandidatesTable[x].raised THEN {}
           ELSE {CandidatesTable[x].val[i] : i \in 1..Len(CandidatesTable[x].val)} :
           x \in AllWords \X AllLangs}
NativeTable == [x \in TierNativeOutcomes \X AllLangs \X TryWords |-> NativeAttempt(x[1], x[2], x[3])] @@ <<>>
DefListTails ==
    {SubSeq(o.defs, i, Len(o.defs)) : o \in {a \in TierEnglishOutcomes : a.kind = "data"}, i \in 1..4}
ScanTable == [d \in DefListTails |-> ScanDefs(d)] @@ <<>>
FollowTable == [o \in TierEnglishOutcomes |-> fetch_english_definition(o)] @@ <<>>
LlmTable == [o \in TierLlmOutcomes |-> LlmResult(o)] @@ <<>>

(***************************************************************************)
(* app.py: the word of the day.                                            *)
(***************************************************************************)
MIGRATION_DAY_IDX == 1681

\* stand-ins for the 64-bit prefixes of SHA-256 that _word_hash and
\* _day_hash compute
WordHashes == [alpha |-> 7, bravo |-> 3, carol |-> 5, delta |-> 9]
_word_hash(word, lang_code) == WordHashes[word]
_day_hash(day_idx, lang_code) == (day_idx * 5) % 11

\* the first position of S in the order of candidates.sort(key=hash), which
\* keeps words of equal hash in list order
FirstByHash(S, words, lang_code) ==
    CHOOSE i \in S : \A j \in S :
        \/ _word_hash(words[i], lang_code) < _word_hash(words[j], lang_code)
        \/ _word_hash(words[i], lang_code) = _word_hash(words[j], lang_code) /\ i <= j

\* source lines 362-396
get_daily_word_consistent_hash(words, blocklist, day_idx, lang_code) ==
    LET day_h == _day_hash(day_idx, lang_code)
        candidates == {i \in 1..Len(words) : words[i] \notin blocklist}
        ahead == {i \in candidates : _word_hash(words[i], lang_code) >= day_h}
    IN  IF candidates = {} THEN (IF words # <<>> THEN words[1] ELSE "")
        ELSE IF ahead # {} THEN words[FirstByHash(ahead, words, lang_code)]
        ELSE words[FirstByHash(candidates, words, lang_code)]

\* source lines 399-418; lists are indexed from 0 in the source
get_daily_word_legacy(words, blocklist, day_idx) ==
    LET list_len == Len(words)
        free == {offset \in 0..(list_len - 1) :
                    words[((day_idx + offset) % list_len) + 1] \notin blocklist}
    IN  IF blocklist = {} \/ free = {} THEN words[(day_idx % list_len) + 1]
        ELSE words[((day_idx + CHOOSE o \in free : \A q \in free : o <= q) % list_len) + 1]

\* source lines 443-458, on the lists cfg of the language
_compute_word_for_day(cfg, lang_code, day_idx) ==
    IF day_idx <= MIGRATION_DAY_IDX
    THEN get_daily_word_legacy(cfg.word_list, {}, day_idx)
    ELSE LET schedule_idx == day_idx - MIGRATION_DAY_IDX - 1 IN
         IF cfg.curated_schedule.found /\ cfg.curated_schedule.val # <<>>
               /\ schedule_idx < Len(cfg.curated_schedule.val)
         THEN cfg.curated_schedule.val[schedule_idx + 1]
         ELSE IF cfg.daily_words.found /\ cfg.daily_words.val # <<>>
         THEN get_daily_word_consistent_hash(cfg.daily_words.val, {}, day_idx, lang_code)
         ELSE get_daily_word_consistent_hash(cfg.word_list, cfg.blocklist, day_idx, lang_code)

\* the days asked for: the last day of the legacy algorithm and the two
\* days after it; today starts at the first of these
Days == {MIGRATION_DAY_IDX, MIGRATION_DAY_IDX + 1, MIGRATION_DAY_IDX + 2}
FirstDay == MIGRATION_DAY_IDX
MaxDays == 1
DailyLang == "fi"
\* what a deployment can load: the lists grow, a word is blocked, a daily
\* list and a curated schedule appear
ListConfigs ==
    {[word_list |-> <<"alpha", "bravo", "carol">>, blocklist |-> {},
      daily_words |-> None, curated_schedule |-> None],
     [word_list |-> <<"delta", "alpha", "bravo", "carol">>, blocklist |-> {"carol"},
      daily_words |-> None, curated_schedule |-> Some(<<"delta">>)],
     [word_list |-> <<"alpha", "bravo", "carol">>, blocklist |-> {},
      daily_words |-> Some(<<"bravo", "delta">>), curated_schedule |-> None]}
NoDaily == [pc |-> "idle", day |-> 0, word |-> "", ret |-> None, prior |-> None,
            past |-> FALSE]
NoSubmit == [pc |-> "idle", ip |-> "", total |-> 0, status |-> 0]
\* the bound of the dedup table, 50_000 in the source, scaled down
_STATS_MAX_IPS == 1
\* the addresses requests come from, and the requests answered in a run
StatsIps == {"a", "b", "c"}
MaxSubmits == 3

(***************************************************************************)
(* State.                                                                  *)
(***************************************************************************)
VARIABLES
    cache,      \* the cache directory: key -> file
    now,        \* time.time()
    nticks,     \* how often the clock has advanced
    api_key,    \* OPENAI_API_KEY is set
    lastHit,    \* key -> Some(value) when the last completed call for the key
                \* was answered from the cache with that value, else None
    pc,         \* where each process is in fetch_definition_cached
    args,       \* the arguments of the call: word, lang_code, cache_dir given
    idx,        \* index of the candidate being tried
    pend,       \* English tier: the form-of definition being followed
    result,     \* the local variable result
    chk,        \* what the cache check of this call saw
    log,        \* the requests of this call, in order
    wr,         \* what this call wrote
    ret,        \* the outcome of the call
    prior,      \* lastHit of the key when the call started
    conc,       \* the call missed the cache while another call for the key
                \* had missed it and not yet written
    pst,        \* a run of parse_wikt_definition, line by line
    gen,        \* a run of _build_candidates, step by step
    hist,       \* app.py: the word-history file of each day, if there is one
    today,      \* get_todays_idx()
    lists,      \* the word lists, blocklist and schedule the workers loaded
    dw,         \* where each worker is in get_word_for_day
    frozen,     \* day -> the word first returned for it when it was not
                \* in the future
    sfile,      \* app.py: the stats file of today's word, if there is one
    slock,      \* the worker that holds the lock of the stats file
    seen,       \* _stats_seen_ips of each worker
    seen_day,   \* _stats_seen_day of each worker
    sw,         \* where each worker is in submit_word_stats
    accepted    \* the dedup keys of the requests answered 200, in order

vars == <<cache, now, nticks, api_key, lastHit, pc, args, idx, pend, result,
          chk, log, wr, ret, prior, conc, pst, gen,
          hist, today, lists, dw, frozen, sfile, slock, seen, seen_day, sw, accepted>>
daily == <<hist, today, lists, dw, frozen>>
stats == <<sfile, slock, seen, seen_day, sw, accepted>>

NoArgs == [word |-> "", lang_code |-> "", cache_dir |-> FALSE]
NoPend == [kind |-> "none"]
NoChk == [hit |-> "none", seen |-> Absent, time |-> 0, during_write |-> FALSE]
NoWr == [status |-> "none", content |-> Absent, time |-> 0]
NoRet == [raised |-> FALSE, val |-> None]
NoBuild == [phase |-> "idle", word |-> "", lang_code |-> "", i |-> 1, candidates |-> <<>>]
NoParse == [phase |-> "idle", extract |-> <<>>, word |-> None, i |-> 1, flag |-> FALSE, out |-> None]

KeyOf(p) == CacheKey(args[p].lang_code, args[p].word)
Resolving == {"native", "english", "follow", "llm", "write", "dump"}
AtRest == {"idle", "done", "raised"}

Init ==
    /\ cache = [k \in Keys |-> Absent]
    /\ now = 0
    /\ nticks = 0
    /\ api_key \in BOOLEAN
    /\ lastHit = [k \in Keys |-> None]
    /\ pc = [p \in Procs |-> "idle"]
    /\ args = [p \in Procs |-> NoArgs]
    /\ idx = [p \in Procs |-> 1]
    /\ pend = [p \in Procs |-> NoPend]
    /\ result = [p \in Procs |-> None]
    /\ chk = [p \in Procs |-> NoChk]
    /\ log = [p \in Procs |-> <<>>]
    /\ wr = [p \in Procs |-> NoWr]
    /\ ret = [p \in Procs |-> NoRet]
    /\ prior = [p \in Procs |-> None]
    /\ conc = [p \in Procs |-> FALSE]
    /\ pst = NoParse
    /\ gen = NoBuild
    /\ hist = [d \in Days |-> None]
    /\ today = FirstDay
    /\ lists \in ListConfigs
    /\ dw = [p \in Procs |-> NoDaily]
    /\ frozen = [d \in Days |-> None]
    /\ sfile = None
    /\ slock = None
    /\ seen = [p \in Procs |-> {}]
    /\ seen_day = [p \in Procs |-> None]
    /\ sw = [p \in Procs |-> NoSubmit]
    /\ accepted = <<>>

Req(tier, title) == [tier |-> tier, title |-> title]

(***************************************************************************)
(* fetch_definition_cached, one action per blocking step.                  *)
(***************************************************************************)
\* the call returns r; answered tells whether the cache answered it
Done(p, r, answered) ==
    /\ pc' = [pc EXCEPT ![p] = "done"]
    /\ ret' = [ret EXCEPT ![p] = Returned(r)]
    /\ lastHit' = IF args[p].cache_dir
                  THEN [lastHit EXCEPT ![KeyOf(p)] = IF answered THEN Some(r) ELSE None]
                  ELSE lastHit

\* variant: the English tier is not guarded by "if not result"
AfterTiersUnguarded(p, r) ==
    /\ result' = [result EXCEPT ![p] = r]
    /\ IF pc[p] = "native"
       THEN /\ pc' = [pc EXCEPT ![p] = "english"]
            /\ UNCHANGED <<ret, lastHit>>
       ELSE IF args[p].cache_dir
       THEN /\ pc' = [pc EXCEPT ![p] = "write"]
            /\ UNCHANGED <<ret, lastHit>>
       ELSE Done(p, r, FALSE)

\* the tiers are over with result r (source lines 662-671): write the cache
\* when a directory was given, else return
AfterTiers(p, r) ==
    /\ result' = [result EXCEPT ![p] = r]
    /\ IF args[p].cache_dir
       THEN /\ pc' = [pc EXCEPT ![p] = "write"]
            /\ UNCHANGED <<ret, lastHit>>
       ELSE Done(p, r, FALSE)

\* a caller invokes fetch_definition_cached(word, lang_code, cache_dir)
Call(p, W, L, C) ==
    /\ pc[p] \in AtRest
    /\ \E w \in W, l \in L, c \in C :
        /\ args' = [args EXCEPT ![p] = [word |-> w, lang_code |-> l, cache_dir |-> c]]
        /\ pc' = [pc EXCEPT ![p] = IF c THEN "check" ELSE "native"]
        /\ prior' = [prior EXCEPT ![p] = IF c THEN lastHit[CacheKey(l, w)] ELSE None]
    /\ idx' = [idx EXCEPT ![p] = 1]
    /\ pend' = [pend EXCEPT ![p] = NoPend]
    /\ result' = [result EXCEPT ![p] = None]
    /\ chk' = [chk EXCEPT ![p] = NoChk]
    /\ log' = [log EXCEPT ![p] = <<>>]
    /\ wr' = [wr EXCEPT ![p] = NoWr]
    /\ ret' = [ret EXCEPT ![p] = NoRet]
    /\ conc' = [conc EXCEPT ![p] = FALSE]
    /\ UNCHANGED <<daily, stats, gen, pst, cache, now, nticks, api_key, lastHit>>

\* os.path.exists(cache_path) is false because a directory that the path
\* goes through does not exist (source line 582)
CacheCheckNoDir(p) ==
    /\ pc[p] = "check"
    /\ cache_path(args[p].lang_code, args[p].word) # KeyOf(p)
    /\ chk' = [chk EXCEPT ![p] = [hit |-> "miss", seen |-> Absent, time |-> now,
                                  during_write |-> FALSE]]
    /\ pc' = [pc EXCEPT ![p] = "native"]
    /\ UNCHANGED <<daily, stats, gen, pst, cache, now, nticks, api_key, args, idx, pend, result, log, wr,
                   prior, ret, lastHit, conc>>

\* source lines 577-598
CacheCheck(p) ==
    /\ pc[p] = "check"
    /\ LET file == cache[KeyOf(p)]
           h == CacheLookup(file, now)
           others == {q \in Procs \ {p} :
                        /\ pc[q] \in Resolving /\ args[q].cache_dir
                        /\ KeyOf(q) = KeyOf(p)}
       IN  /\ chk' = [chk EXCEPT ![p] =
                        [hit |-> h, seen |-> file, time |-> now,
                         during_write |-> \E q \in others : pc[q] = "dump"]]
           /\ IF h = "pos" THEN Done(p, Some(file.val), TRUE) /\ UNCHANGED conc
              ELSE IF h = "neg" THEN Done(p, None, TRUE) /\ UNCHANGED conc
              ELSE /\ pc' = [pc EXCEPT ![p] = "native"]
                   /\ conc' = [q \in Procs |->
                                 IF q = p THEN others # {}
                                 ELSE IF q \in others THEN TRUE ELSE conc[q]]
                   /\ UNCHANGED <<ret, lastHit>>
    /\ UNCHANGED <<daily, stats, gen, pst, cache, now, nticks, api_key, args, idx, pend, result, log, wr, prior>>

\* fetch_native_wiktionary builds its candidates outside any try block
NativeRaise(p) ==
    /\ pc[p] = "native"
    /\ Candidates(args[p].word, args[p].lang_code).raised
    /\ pc' = [pc EXCEPT ![p] = "raised"]
    /\ ret' = [ret EXCEPT ![p] = Raised(Candidates(args[p].word, args[p].lang_code).exc)]
    /\ lastHit' = IF args[p].cache_dir THEN [lastHit EXCEPT ![KeyOf(p)] = None] ELSE lastHit
    /\ UNCHANGED <<daily, stats, gen, pst, cache, now, nticks, api_key, args, idx, pend, result, chk, log, wr, prior, conc>>

\* variant: the tier gives up at the first candidate without a result
NativeRequestNoRetry(p, answers) ==
    /\ pc[p] = "native"
    /\ ~Candidates(args[p].word, args[p].lang_code).raised
    /\ LET candidates == Candidates(args[p].word, args[p].lang_code).val
           try_word == candidates[idx[p]]
       IN  /\ log' = [log EXCEPT ![p] = Append(@, Req("native", try_word))]
           /\ \E o \in answers :
                LET r == NativeTable[<<o, args[p].lang_code, try_word>>] IN
                IF r.found THEN AfterTiers(p, r) /\ UNCHANGED idx
                ELSE /\ idx' = [idx EXCEPT ![p] = 1] /\ pc' = [pc EXCEPT ![p] = "english"]
                     /\ UNCHANGED <<result, ret, lastHit>>
    /\ UNCHANGED <<daily, stats, gen, pst, cache, now, nticks, api_key, args, pend, chk, wr, prior, conc>>

\* one request of the candidate loop of fetch_native_wiktionary
NativeRequest(p, answers) ==
    /\ pc[p] = "native"
    /\ ~Candidates(args[p].word, args[p].lang_code).raised
    /\ LET candidates == Candidates(args[p].word, args[p].lang_code).val
           try_word == candidates[idx[p]]
       IN  /\ log' = [log EXCEPT ![p] = Append(@, Req("native", try_word))]
           /\ \E o \in answers :
                LET r == NativeTable[<<o, args[p].lang_code, try_word>>] IN
                IF r.found THEN AfterTiers(p, r) /\ UNCHANGED idx
                ELSE /\ IF idx[p] < Len(candidates)
                        THEN idx' = [idx EXCEPT ![p] = @ + 1] /\ UNCHANGED pc
                        ELSE idx' = [idx EXCEPT ![p] = 1] /\ pc' = [pc EXCEPT ![p] = "english"]
                     /\ UNCHANGED <<result, ret, lastHit>>
    /\ UNCHANGED <<daily, stats, gen, pst, cache, now, nticks, api_key, args, pend, chk, wr, prior, conc>>

\* the candidates of the English tier (source line 606)
EnCandidates(p) == Candidates(Lower(args[p].word), args[p].lang_code).val

\* go on after scanning the definitions of an English answer
AfterScan(p, s) ==
    IF s.kind = "found"
    THEN /\ AfterTiers(p, Some(EnglishResult(s.definition, s.pos, EnCandidates(p)[idx[p]])))
         /\ pend' = [pend EXCEPT ![p] = NoPend]
         /\ UNCHANGED idx
    ELSE IF s.kind = "follow"
    THEN /\ pc' = [pc EXCEPT ![p] = "follow"]
         /\ pend' = [pend EXCEPT ![p] = s]
         /\ UNCHANGED <<idx, result, ret, lastHit>>
    ELSE /\ IF idx[p] < Len(EnCandidates(p))
            THEN idx' = [idx EXCEPT ![p] = @ + 1] /\ pc' = [pc EXCEPT ![p] = "english"]
            ELSE idx' = [idx EXCEPT ![p] = 1] /\ pc' = [pc EXCEPT ![p] = "llm"]
         /\ pend' = [pend EXCEPT ![p] = NoPend]
         /\ UNCHANGED <<result, ret, lastHit>>

\* variant: the request for a candidate is sent a second time
EnglishRequestRetry(p, answers) ==
    /\ pc[p] = "english"
    /\ log' = [log EXCEPT ![p] = @ \o <<Req("english", EnCandidates(p)[idx[p]]),
                                         Req("english", EnCandidates(p)[idx[p]])>>]
    /\ \E o \in answers :
         AfterScan(p, IF o.kind = "data" THEN ScanTable[o.defs] ELSE [kind |-> "none"])
    /\ UNCHANGED <<daily, stats, gen, pst, cache, now, nticks, api_key, args, chk, wr, prior, conc>>

\* one request of the candidate loop of the English tier (source lines 607-656)
EnglishRequest(p, answers) ==
    /\ pc[p] = "english"
    /\ log' = [log EXCEPT ![p] = Append(@, Req("english", EnCandidates(p)[idx[p]]))]
    /\ \E o \in answers :
         AfterScan(p, IF o.kind = "data" THEN ScanTable[o.defs] ELSE [kind |-> "none"])
    /\ UNCHANGED <<daily, stats, gen, pst, cache, now, nticks, api_key, args, chk, wr, prior, conc>>

\* variant: a base word whose definition is boilerplate is looked up again
FollowRequestSecondHop(p, answers) ==
    /\ pc[p] = "follow"
    /\ \E o \in answers :
         LET followed == FollowTable[o] IN
         /\ log' = [log EXCEPT ![p] =
                      IF Truthy(followed) /\ _FORM_OF_RE(followed.val).found
                      THEN @ \o <<Req("formof", Lower(pend[p].base_word)),
                                  Req("formof", Lower(_FORM_OF_RE(followed.val).val))>>
                      ELSE Append(@, Req("formof", Lower(pend[p].base_word)))]
         /\ IF Truthy(followed)
            THEN AfterScan(p, [kind |-> "found", definition |-> followed.val, pos |-> pend[p].pos])
            ELSE AfterScan(p, ScanTable[pend[p].rest])
    /\ UNCHANGED <<daily, stats, gen, pst, cache, now, nticks, api_key, args, chk, wr, prior, conc>>

\* _follow_form_of: the lookup of the base word (source lines 452-460, 634-643)
FollowRequest(p, answers) ==
    /\ pc[p] = "follow"
    /\ log' = [log EXCEPT ![p] = Append(@, Req("formof", Lower(pend[p].base_word)))]
    /\ \E o \in answers :
         LET followed == FollowTable[o] IN
         IF Truthy(followed)
         THEN AfterScan(p, [kind |-> "found", definition |-> followed.val, pos |-> pend[p].pos])
         ELSE AfterScan(p, ScanTable[pend[p].rest])
    /\ UNCHANGED <<daily, stats, gen, pst, cache, now, nticks, api_key, args, chk, wr, prior, conc>>

\* fetch_llm_definition returns at one of its gates, without a request
LlmRefuse(p) ==
    /\ pc[p] = "llm"
    /\ ~LlmGateOpen(api_key, args[p].lang_code)
    /\ log' = [log EXCEPT ![p] = Append(@, Req("llm_call", args[p].word))]
    /\ AfterTiers(p, None)
    /\ UNCHANGED <<daily, stats, gen, pst, cache, now, nticks, api_key, args, idx, pend, chk, wr, prior, conc>>

\* fetch_llm_definition sends its request
LlmRequest(p, answers) ==
    /\ pc[p] = "llm"
    /\ LlmGateOpen(api_key, args[p].lang_code)
    /\ log' = [log EXCEPT ![p] = @ \o <<Req("llm_call", args[p].word), Req("llm", args[p].word)>>]
    /\ \E o \in answers : AfterTiers(p, LlmTable[o])
    /\ UNCHANGED <<daily, stats, gen, pst, cache, now, nticks, api_key, args, idx, pend, chk, wr, prior, conc>>

\* os.makedirs and open(cache_path, "w") succeed: the file is truncated; a
\* file that could not be read for lack of permission stays unreadable
WriteOpen(p) ==
    /\ pc[p] = "write"
    /\ \E f \in {EmptyFile} \cup ({cache[KeyOf(p)]} \cap {Unreadable}) :
          cache' = [cache EXCEPT ![KeyOf(p)] = f]
    /\ pc' = [pc EXCEPT ![p] = "dump"]
    /\ UNCHANGED <<daily, stats, gen, pst, now, nticks, api_key, lastHit, args, idx, pend, result, chk, log, wr, ret, prior, conc>>

\* os.makedirs or open raises IOError, which is swallowed
WriteOpenFails(p) ==
    /\ pc[p] = "write"
    /\ wr' = [wr EXCEPT ![p] = [status |-> "open_failed", content |-> Absent, time |-> now]]
    /\ Done(p, result[p], FALSE)
    /\ UNCHANGED <<daily, stats, gen, pst, cache, now, nticks, api_key, args, idx, pend, result, chk, log, prior, conc>>

\* json.dump and the close of the file succeed
WriteDump(p) ==
    /\ pc[p] = "dump"
    /\ LET content == CacheContent(result[p], now) IN
       /\ \E f \in AfterFlush(cache[KeyOf(p)], content) : cache' = [cache EXCEPT ![KeyOf(p)] = f]
       /\ wr' = [wr EXCEPT ![p] = [status |-> "ok", content |-> content, time |-> now]]
    /\ Done(p, result[p], FALSE)
    /\ UNCHANGED <<daily, stats, gen, pst, now, nticks, api_key, args, idx, pend, result, chk, log, prior, conc>>

\* json.dump or the close raises IOError, which is swallowed: nothing is
\* flushed to the truncated file
WriteDumpFails(p) ==
    /\ pc[p] = "dump"
    /\ wr' = [wr EXCEPT ![p] = [status |-> "dump_failed", content |-> Absent, time |-> now]]
    /\ Done(p, result[p], FALSE)
    /\ UNCHANGED <<daily, stats, gen, pst, cache, now, nticks, api_key, args, idx, pend, result, chk, log, prior, conc>>

\* time passes
Tick ==
    /\ nticks < MaxTicks
    /\ \E d \in TickSteps : now' = now + d
    /\ nticks' = nticks + 1
    /\ UNCHANGED <<daily, stats, gen, pst, cache, api_key, lastHit, pc, args, idx, pend, result, chk, log, wr, ret, prior, conc>>

(***************************************************************************)
(* parse_wikt_definition, one action per line of the extract.              *)
(***************************************************************************)
orch == <<cache, now, nticks, api_key, lastHit, pc, args, idx, pend, result,
          chk, log, wr, ret, prior, conc>>

\* parse_wikt_definition(extract, word) is called (source lines 62-83)
ParseCall(extracts, words) ==
    /\ pst.phase \in {"idle", "done"}
    /\ \E e \in extracts, w \in words :
         pst' = [phase |-> "structured", extract |-> e, word |-> EffectiveWord(e, w),
                 i |-> 1, flag |-> FALSE, out |-> None]
    /\ UNCHANGED <<orch, gen, daily, stats>>

\* one turn of the loop of the structured pass (source lines 183-292)
StructuredStep ==
    /\ pst.phase = "structured"
    /\ pst.i <= Len(pst.extract)
    /\ LET r == StructuredLine(pst.extract[pst.i], pst.word, pst.flag) IN
       pst' = IF r.ret.found
              THEN [pst EXCEPT !.phase = "done", !.flag = r.flag, !.out = r.ret]
              ELSE [pst EXCEPT !.i = @ + 1, !.flag = r.flag]
    /\ UNCHANGED <<orch, gen, daily, stats>>

\* the structured pass found nothing: the fallback pass starts (line 294)
StructuredEnd ==
    /\ pst.phase = "structured"
    /\ pst.i > Len(pst.extract)
    /\ pst' = [pst EXCEPT !.phase = "fallback", !.i = 1, !.flag = FALSE]
    /\ UNCHANGED <<orch, gen, daily, stats>>

\* one turn of the loop of _fallback_extract_definition (source lines 34-58)
FallbackStep ==
    /\ pst.phase = "fallback"
    /\ pst.i <= Len(pst.extract)
    /\ LET r == FallbackLine(pst.extract[pst.i], pst.word, pst.flag) IN
       pst' = IF r.ret.found
              THEN [pst EXCEPT !.phase = "done", !.flag = r.flag, !.out = r.ret]
              ELSE [pst EXCEPT !.i = @ + 1, !.flag = r.flag]
    /\ UNCHANGED <<orch, gen, daily, stats>>

\* the fallback pass found nothing either (source line 59)
FallbackEnd ==
    /\ pst.phase = "fallback"
    /\ pst.i > Len(pst.extract)
    /\ pst' = [pst EXCEPT !.phase = "done", !.out = None]
    /\ UNCHANGED <<orch, gen, daily, stats>>

(***************************************************************************)
(* _build_candidates, one action per statement and per turn of its loops.  *)
(***************************************************************************)
\* _build_candidates(word, lang_code) is called: candidates = [word]
BuildCall(words, langs) ==
    /\ gen.phase \in {"idle", "done", "raised"}
    /\ \E w \in words, l \in langs :
         gen' = [phase |-> "title", word |-> w, lang_code |-> l, i |-> 1,
                 candidates |-> <<w>>]
    /\ UNCHANGED <<orch, pst, daily, stats>>

\* word[0] of the empty word raises IndexError (source line 370)
TitleRaise ==
    /\ gen.phase = "title"
    /\ gen.word = ""
    /\ gen' = [gen EXCEPT !.phase = "raised"]
    /\ UNCHANGED <<orch, pst, daily, stats>>

\* variant: the title-case variant is added whatever the first letter is
TitleStepAlways ==
    /\ gen.phase = "title"
    /\ gen.word # ""
    /\ gen' = [gen EXCEPT
                 !.phase = "add",
                 !.candidates = Append(@, UpperCh(Ch(gen.word, 1)) \o From(gen.word, 2))]
    /\ UNCHANGED <<orch, pst, daily, stats>>

\* the title-case variant (source lines 370-371)
TitleStep ==
    /\ gen.phase = "title"
    /\ gen.word # ""
    /\ gen' = [gen EXCEPT
                 !.phase = "add",
                 !.candidates =
                     IF Ch(gen.word, 1) \in LowerChars \cup UncasedLowerChars
                     THEN Append(@, UpperCh(Ch(gen.word, 1)) \o From(gen.word, 2))
                     ELSE @]
    /\ UNCHANGED <<orch, pst, daily, stats>>

\* one turn of the loop over LEMMA_SUFFIXES (source lines 373-374)
AddStep ==
    /\ gen.phase = "add"
    /\ gen.i <= Len(GetList(LEMMA_SUFFIXES, gen.lang_code))
    /\ gen' = [gen EXCEPT
                 !.i = @ + 1,
                 !.candidates = Append(@, gen.word \o GetList(LEMMA_SUFFIXES, gen.lang_code)[gen.i])]
    /\ UNCHANGED <<orch, pst, daily, stats>>

\* the loop over LEMMA_SUFFIXES is over
AddEnd ==
    /\ gen.phase = "add"
    /\ gen.i > Len(GetList(LEMMA_SUFFIXES, gen.lang_code))
    /\ gen' = [gen EXCEPT !.phase = "strip", !.i = 1]
    /\ UNCHANGED <<orch, pst, daily, stats>>

\* one turn of the loop over LEMMA_STRIP_RULES (source lines 376-380)
StripStep ==
    /\ gen.phase = "strip"
    /\ gen.i <= Len(GetList(LEMMA_STRIP_RULES, gen.lang_code))
    /\ LET rule == GetList(LEMMA_STRIP_RULES, gen.lang_code)[gen.i] IN
       gen' = [gen EXCEPT
                 !.i = @ + 1,
                 !.candidates = StripRule(@, gen.word, rule[1], rule[2])]
    /\ UNCHANGED <<orch, pst, daily, stats>>

\* the loop over LEMMA_STRIP_RULES is over: return candidates (line 381)
StripEnd ==
    /\ gen.phase = "strip"
    /\ gen.i > Len(GetList(LEMMA_STRIP_RULES, gen.lang_code))
    /\ gen' = [gen EXCEPT !.phase = "done"]
    /\ UNCHANGED <<orch, pst, daily, stats>>

(***************************************************************************)
(* get_word_for_day, one action per step that touches the history file.    *)
(***************************************************************************)
wiki == <<orch, pst, gen>>

\* a worker is asked for the word of day_idx (source line 461)
DailyCall(p, days) ==
    /\ dw[p].pc \in {"idle", "done", "raised"}
    /\ \E d \in days :
         dw' = [dw EXCEPT ![p] = [pc |-> "exists", day |-> d, word |-> "", ret |-> None,
                                  prior |-> frozen[d], past |-> d <= today]]
    /\ UNCHANGED <<wiki, stats, hist, today, lists, frozen>>

\* os.path.exists(cache_path) (source line 469)
DailyExists(p) ==
    /\ dw[p].pc = "exists"
    /\ dw' = [dw EXCEPT ![p].pc = IF hist[dw[p].day].found THEN "read" ELSE "compute"]
    /\ UNCHANGED <<wiki, stats, hist, today, lists, frozen>>

\* the call returns word
DailyReturn(p, word) ==
    /\ dw' = [dw EXCEPT ![p].pc = "done", ![p].ret = Some(word)]
    /\ frozen' = IF dw[p].past /\ ~frozen[dw[p].day].found
                 THEN [frozen EXCEPT ![dw[p].day] = Some(word)]
                 ELSE frozen

\* the file is there: return f.read().strip() (source lines 470-471)
DailyRead(p) ==
    /\ dw[p].pc = "read"
    /\ DailyReturn(p, Strip(hist[dw[p].day].val))
    /\ UNCHANGED <<wiki, stats, hist, today, lists>>

\* compute the word and compare the day with today (source lines 473-477)
DailyCompute(p) ==
    /\ dw[p].pc = "compute"
    /\ LET word == _compute_word_for_day(lists, DailyLang, dw[p].day) IN
       IF dw[p].day <= today
       THEN /\ dw' = [dw EXCEPT ![p].pc = "open", ![p].word = word]
            /\ UNCHANGED frozen
       ELSE DailyReturn(p, word)
    /\ UNCHANGED <<wiki, stats, hist, today, lists>>

\* os.makedirs and open(cache_path, "w"): the file is created or truncated
\* (source lines 478-479)
DailyOpen(p) ==
    /\ dw[p].pc = "open"
    /\ hist' = [hist EXCEPT ![dw[p].day] = Some("")]
    /\ dw' = [dw EXCEPT ![p].pc = "write"]
    /\ UNCHANGED <<wiki, stats, today, lists, frozen>>

\* os.makedirs or open raises; nothing catches it
DailyOpenFails(p) ==
    /\ dw[p].pc = "open"
    /\ dw' = [dw EXCEPT ![p].pc = "raised"]
    /\ UNCHANGED <<wiki, stats, hist, today, lists, frozen>>

\* f.write(word) and the close of the file (source lines 479-482)
DailyWrite(p) ==
    /\ dw[p].pc = "write"
    /\ hist' = [hist EXCEPT ![dw[p].day] = Some(dw[p].word)]
    /\ DailyReturn(p, dw[p].word)
    /\ UNCHANGED <<wiki, stats, today, lists>>

\* the write or the close raises: the file stays as open left it
DailyWriteFails(p) ==
    /\ dw[p].pc = "write"
    /\ dw' = [dw EXCEPT ![p].pc = "raised"]
    /\ UNCHANGED <<wiki, stats, hist, today, lists, frozen>>

\* a deployment: the workers load other lists
Reload(configs) ==
    /\ \E cfg \in configs \ {lists} : lists' = cfg
    /\ UNCHANGED <<wiki, stats, hist, today, dw, frozen>>

\* midnight
NextDay ==
    /\ today < FirstDay + MaxDays
    /\ today' = today + 1
    /\ UNCHANGED <<wiki, stats, hist, lists, dw, frozen>>

\* the word of the day, for the workers W asked for the days D
DailyNextOf(W, D, configs) ==
    \/ \E p \in W : DailyCall(p, D)
    \/ \E p \in W : DailyExists(p)
    \/ \E p \in W : DailyRead(p)
    \/ \E p \in W : DailyCompute(p)
    \/ \E p \in W : DailyOpen(p)
    \/ \E p \in W : DailyOpenFails(p)
    \/ \E p \in W : DailyWrite(p)
    \/ \E p \in W : DailyWriteFails(p)
    \/ Reload(configs)
    \/ NextDay
\* one worker, every day and deployment
DailySeqNext == DailyNextOf(SeqProcs, Days, ListConfigs)
DailySeqSpec == Init /\ [][DailySeqNext]_vars
\* two workers asked for the day after the migration, which is tomorrow at
\* first
DailyNext == DailyNextOf(Procs, {MIGRATION_DAY_IDX + 1}, ListConfigs)
DailySpec == Init /\ [][DailyNext]_vars

\* submit_word_stats up to the call of _update_word_stats (source lines
\* 1522-1559): validation of the day, the dedup table of the worker
StatsSubmit(p, ips, days) ==
    /\ sw[p].pc = "idle"
    /\ Len(accepted) < MaxSubmits
    /\ \E ip \in ips, day_idx \in days :
         IF day_idx # today
         THEN /\ sw' = [sw EXCEPT ![p] = [NoSubmit EXCEPT !.status = 403]]
              /\ UNCHANGED <<seen, seen_day, accepted>>
         ELSE LET table == IF seen_day[p] # Some(today) THEN {} ELSE seen[p]
                  dedup_key == <<DailyLang, day_idx, ip>>
              IN  /\ seen_day' = [seen_day EXCEPT ![p] = Some(today)]
                  /\ IF dedup_key \in table
                     THEN /\ seen' = [seen EXCEPT ![p] = table]
                          /\ sw' = [sw EXCEPT ![p] = [NoSubmit EXCEPT !.status = 200]]
                          /\ accepted' = Append(accepted, dedup_key)
                     ELSE /\ seen' = [seen EXCEPT ![p] =
                                        IF Cardinality(table) < _STATS_MAX_IPS
                                        THEN table \cup {dedup_key} ELSE table]
                          /\ sw' = [sw EXCEPT ![p] = [pc |-> "lock", ip |-> ip,
                                                      total |-> 0, status |-> 0]]
                          /\ UNCHANGED accepted
    /\ UNCHANGED <<wiki, daily, sfile, slock>>

\* the answer 200 of submit_word_stats (source line 1559)
Answered(p) ==
    /\ sw' = [sw EXCEPT ![p] = [NoSubmit EXCEPT !.status = 200]]
    /\ accepted' = Append(accepted, <<DailyLang, today, sw[p].ip>>)

\* _update_word_stats takes the lock of the stats file (source lines 1082-1085)
StatsLock(p) ==
    /\ sw[p].pc = "lock"
    /\ slock = None
    /\ slock' = Some(p)
    /\ sw' = [sw EXCEPT ![p].pc = "read"]
    /\ UNCHANGED <<wiki, daily, sfile, seen, seen_day, accepted>>

\* another worker holds the lock: the update is skipped (source lines 1086-1087)
StatsLockBusy(p) ==
    /\ sw[p].pc = "lock"
    /\ slock # None
    /\ Answered(p)
    /\ UNCHANGED <<wiki, daily, sfile, slock, seen, seen_day>>

\* the stats are read, or start from zero (source lines 1089-1103)
StatsRead(p) ==
    /\ sw[p].pc = "read"
    /\ sw' = [sw EXCEPT ![p].pc = "write",
                        ![p].total = IF sfile.found THEN sfile.val ELSE 0]
    /\ UNCHANGED <<wiki, daily, sfile, slock, seen, seen_day, accepted>>

\* the total is incremented and written, the lock file is closed (source
\* lines 1105-1116)
StatsWrite(p) ==
    /\ sw[p].pc = "write"
    /\ sfile' = Some(sw[p].total + 1)
    /\ slock' = None
    /\ Answered(p)
    /\ UNCHANGED <<wiki, daily, seen, seen_day>>

\* two workers receive play results for today and for yesterday
StatsNext ==
    \/ \E p \in Procs : StatsSubmit(p, StatsIps, {today, today - 1})
    \/ \E p \in Procs : StatsLock(p)
    \/ \E p \in Procs : StatsLockBusy(p)
    \/ \E p \in Procs : StatsRead(p)
    \/ \E p \in Procs : StatsWrite(p)
StatsSpec == Init /\ [][StatsNext]_vars

\* calls that do not overlap: one caller, any word and cache_dir
Next ==
    \/ \E p \in SeqProcs : Call(p, Words, Langs, BOOLEAN)
    \/ \E p \in SeqProcs : CacheCheck(p)
    \/ \E p \in SeqProcs : NativeRaise(p)
    \/ \E p \in SeqProcs : NativeRequest(p, NativeOutcomes)
    \/ \E p \in SeqProcs : EnglishRequest(p, EnglishOutcomes)
    \/ \E p \in SeqProcs : FollowRequest(p, EnglishOutcomes)
    \/ \E p \in SeqProcs : LlmRefuse(p)
    \/ \E p \in SeqProcs : LlmRequest(p, LlmOutcomes)
    \/ \E p \in SeqProcs : WriteOpen(p)
    \/ \E p \in SeqProcs : WriteOpenFails(p)
    \/ \E p \in SeqProcs : WriteDump(p)
    \/ \E p \in SeqProcs : WriteDumpFails(p)
    \/ Tick
Spec == Init /\ [][Next]_vars

\* calls of two workers that share the cache directory; no form-of
\* definition is followed, as the English source does not answer
ConcNext ==
    \/ \E p \in Procs : Call(p, ConcWords, ConcLangs, {TRUE})
    \/ \E p \in Procs : CacheCheck(p)
    \/ \E p \in Procs : NativeRaise(p)
    \/ \E p \in Procs : NativeRequest(p, ConcNativeOutcomes)
    \/ \E p \in Procs : EnglishRequest(p, ConcEnglishOutcomes)
    \/ \E p \in Procs : LlmRefuse(p)
    \/ \E p \in Procs : LlmRequest(p, ConcLlmOutcomes)
    \/ \E p \in Procs : WriteOpen(p)
    \/ \E p \in Procs : WriteOpenFails(p)
    \/ \E p \in Procs : WriteDump(p)
    \/ \E p \in Procs : WriteDumpFails(p)
ConcSpec == Init /\ [][ConcNext]_vars

\* the file of a key is damaged between two calls
Corrupt ==
    /\ \A p \in Procs : pc[p] \in AtRest
    /\ \E k \in {CacheKey(l, w) : l \in ConcLangs, w \in MalformedWords}, f \in MalformedFiles :
          /\ cache[k] # f
          /\ cache' = [cache EXCEPT ![k] = f]
    /\ UNCHANGED <<daily, stats, gen, pst, now, nticks, api_key, lastHit, pc, args, idx, pend, result, chk,
                   log, wr, ret, prior, conc>>

\* calls of one caller on a cache whose files get damaged
MalformedNext ==
    \/ \E p \in SeqProcs : Call(p, MalformedWords, ConcLangs, {TRUE})
    \/ \E p \in SeqProcs : CacheCheck(p)
    \/ \E p \in SeqProcs : NativeRequest(p, ConcNativeOutcomes)
    \/ \E p \in SeqProcs : EnglishRequest(p, ConcEnglishOutcomes)
    \/ \E p \in SeqProcs : LlmRefuse(p)
    \/ \E p \in SeqProcs : LlmRequest(p, ConcLlmOutcomes)
    \/ \E p \in SeqProcs : WriteOpen(p)
    \/ \E p \in SeqProcs : WriteOpenFails(p)
    \/ \E p \in SeqProcs : WriteDump(p)
    \/ \E p \in SeqProcs : WriteDumpFails(p)
    \/ Corrupt
MalformedSpec == Init /\ [][MalformedNext]_vars

\* calls of one caller for two languages that share the cache directory
ScopeNext ==
    \/ \E p \in SeqProcs : Call(p, ScopeWords, ScopeLangs, {TRUE})
    \/ \E p \in SeqProcs : CacheCheck(p)
    \/ \E p \in SeqProcs : CacheCheckNoDir(p)
    \/ \E p \in SeqProcs : NativeRequest(p, ConcNativeOutcomes)
    \/ \E p \in SeqProcs : EnglishRequest(p, ConcEnglishOutcomes)
    \/ \E p \in SeqProcs : LlmRefuse(p)
    \/ \E p \in SeqProcs : LlmRequest(p, ConcLlmOutcomes)
    \/ \E p \in SeqProcs : WriteOpen(p)
    \/ \E p \in SeqProcs : WriteOpenFails(p)
    \/ \E p \in SeqProcs : WriteDump(p)
    \/ \E p \in SeqProcs : WriteDumpFails(p)
ScopeSpec == Init /\ [][ScopeNext]_vars

\* calls without a cache directory: any word, a language with and one
\* without a name for the generative source, every answer
TierNext ==
    \/ \E p \in SeqProcs : Call(p, Words, TierLangs, {FALSE})
    \/ \E p \in SeqProcs : NativeRaise(p)
    \/ \E p \in SeqProcs : NativeRequest(p, TierNativeOutcomes)
    \/ \E p \in SeqProcs : EnglishRequest(p, TierEnglishOutcomes)
    \/ \E p \in SeqProcs : FollowRequest(p, TierEnglishOutcomes)
    \/ \E p \in SeqProcs : LlmRefuse(p)
    \/ \E p \in SeqProcs : LlmRequest(p, TierLlmOutcomes)
TierSpec == Init /\ [][TierNext]_vars

\* runs of the parser on the extracts and words of the model
ParseNext ==
    \/ ParseCall(ParseExtracts, ParseWords)
    \/ StructuredStep
    \/ StructuredEnd
    \/ FallbackStep
    \/ FallbackEnd
ParseSpec == Init /\ [][ParseNext]_vars

\* runs of the candidate generator on the words and languages of the model
BuildNext ==
    \/ BuildCall(BuildWords, BuildLangs)
    \/ TitleRaise
    \/ TitleStep
    \/ AddStep
    \/ AddEnd
    \/ StripStep
    \/ StripEnd
BuildSpec == Init /\ [][BuildNext]_vars

(***************************************************************************)
(* Properties.                                                             *)
(***************************************************************************)
TierRank(tier) ==
    IF tier = "native" THEN 1 ELSE IF tier \in {"english", "formof"} THEN 2 ELSE 3
TitlesOf(l, tier) ==
    LET Test(e) == e.tier = tier
        sel == SelectSeq(l, Test)
    IN  [i \in 1..Len(sel) |-> sel[i].title]
HasTier(l, tiers) == \E i \in 1..Len(l) : l[i].tier \in tiers
NativeCandidates(p) == Candidates(args[p].word, args[p].lang_code).val

\* C1: in a call that the cache does not answer the requests go native,
\* English, generative in that order; an English-source request is made only
\* after every native candidate was requested without a result;
\* fetch_llm_definition is invoked only after every candidate of the native
\* and of the English tier was requested without a result, and at most once.
C1_TierOrder ==
    \A p \in Procs :
        /\ \A i, j \in 1..Len(log[p]) :
             i < j => TierRank(log[p][i].tier) <= TierRank(log[p][j].tier)
        /\ pc[p] \in {"english", "follow", "llm"} => ~result[p].found
        /\ HasTier(log[p], {"english", "formof"}) \/ pc[p] \in {"english", "follow"}
             => TitlesOf(log[p], "native") = NativeCandidates(p)
        /\ HasTier(log[p], {"llm_call"}) \/ pc[p] = "llm"
             => /\ TitlesOf(log[p], "native") = NativeCandidates(p)
                /\ TitlesOf(log[p], "english") = EnCandidates(p)
        /\ Len(TitlesOf(log[p], "llm_call")) <= 1
        /\ Len(TitlesOf(log[p], "llm")) <= 1
        /\ result[p].found /\ result[p].val.source = "native"
             => ~HasTier(log[p], {"english", "formof", "llm_call", "llm"})
        /\ result[p].found /\ result[p].val.source = "english"
             => ~HasTier(log[p], {"llm_call", "llm"})

\* a call went through all three tiers and the generative tier answered
C1_Witness ==
    \E p \in Procs :
        /\ pc[p] = "done" /\ ret[p].val.found /\ ret[p].val.val.source = "ai"
        /\ HasTier(log[p], {"native"}) /\ HasTier(log[p], {"formof"})
        /\ log[p][Len(log[p])].tier = "llm"

Checked(p) == chk[p].hit # "none"
SeenAge(p) == chk[p].time - EntryTs(chk[p].seen.val)

\* C2: a call whose cache check finds a negative entry younger than
\* NEGATIVE_CACHE_TTL returns nothing, makes no request and writes nothing;
\* a call that finds a negative entry at least as old as the TTL misses the
\* cache and goes through the tiers, starting with the native one.
C2_NegativeTTL ==
    \A p \in Procs :
        Checked(p) /\ IsNegativeFile(chk[p].seen) =>
            IF SeenAge(p) < NEGATIVE_CACHE_TTL
            THEN /\ pc[p] = "done" /\ ret[p] = Returned(None)
                 /\ log[p] = <<>> /\ wr[p] = NoWr
            ELSE /\ chk[p].hit = "miss"
                 /\ pc[p] \in Resolving \cup {"done"}
                 /\ pc[p] # "native" => log[p] # <<>>
                 /\ log[p] # <<>> => log[p][1] = Req("native", args[p].word)

\* a call found a negative entry exactly as old as the TTL and resolved again
C2_Witness ==
    \E p \in Procs :
        /\ pc[p] = "done" /\ Checked(p) /\ IsNegativeFile(chk[p].seen)
        /\ SeenAge(p) = NEGATIVE_CACHE_TTL
        /\ HasTier(log[p], {"native"}) /\ HasTier(log[p], {"english"})

Populated(file, t) ==
    \/ IsPositiveFile(file)
    \/ IsNegativeFile(file) /\ t - EntryTs(file.val) < NEGATIVE_CACHE_TTL

\* C3: a call that finds the entry of its key populated (positive, or
\* negative and younger than the TTL) makes no request, and returns what the
\* previous call for the key returned when that call found the entry
\* populated too.
C3_Idempotence ==
    \A p \in Procs :
        pc[p] = "done" /\ args[p].cache_dir /\ Populated(chk[p].seen, chk[p].time) =>
            /\ log[p] = <<>>
            /\ ret[p] = Returned(IF IsPositiveFile(chk[p].seen) THEN Some(chk[p].seen.val) ELSE None)
            /\ prior[p].found => ret[p].val = prior[p].val

\* the second of two consecutive calls for a key that a negative entry,
\* younger than the TTL but not new, answered
C3_Witness ==
    \E p \in Procs :
        /\ pc[p] = "done" /\ args[p].cache_dir /\ prior[p].found
        /\ IsNegativeFile(chk[p].seen) /\ SeenAge(p) > 0
        /\ ret[p] = Returned(None) /\ log[p] = <<>>

\* C4: a positive entry, once stored, is never changed by any step of any
\* call.
C4_PositiveKept ==
    [][\A k \in Keys : IsPositiveFile(cache[k]) => cache'[k] = cache[k]]_vars

\* C5: a call with a cache directory that the cache did not answer returns
\* with the entry of its key holding the returned result, or a negative
\* marker stamped with a time of the call when it returns nothing.
C5_WriteAgrees ==
    \A p \in Procs :
        pc[p] = "done" /\ args[p].cache_dir /\ chk[p].hit = "miss" =>
            /\ cache[KeyOf(p)].kind = "json"
            /\ IF ret[p].val.found
               THEN cache[KeyOf(p)].val = ret[p].val.val
               ELSE /\ IsNegative(cache[KeyOf(p)].val)
                    /\ chk[p].time <= cache[KeyOf(p)].val.ts
                    /\ cache[KeyOf(p)].val.ts <= now

\* C6: no call ends with an exception.
C6_NeverRaises == \A p \in Procs : pc[p] # "raised" /\ ~ret[p].raised

\* C7: two calls for one key that both missed the cache while the other was
\* resolving, and both wrote, wrote the same content.
C7_EquivalentWrites ==
    \A p, q \in Procs :
        /\ p # q /\ pc[p] = "done" /\ pc[q] = "done" /\ KeyOf(p) = KeyOf(q)
        /\ conc[p] /\ conc[q] /\ wr[p].status = "ok" /\ wr[q].status = "ok"
        => wr[p].content = wr[q].content

\* C8: a cache check made while another call is writing the entry of the
\* same key sees a complete entry or no file.
C8_AtomicWrites ==
    \A p \in Procs : chk[p].during_write => chk[p].seen.kind \in {"absent", "json"}

\* a line that is the word, optionally followed by a bracketed annotation
HeadwordLine(raw, w) ==
    LET line == Strip(raw)
        rest == LStrip(From(line, Len(w) + 1))
    IN  /\ StartsWith(line, w)
        /\ rest = "" \/ (StartsWith(rest, "(") /\ EndsWith(rest, ")"))
HeadwordOnly(extract, word) ==
    /\ word.found /\ word.val # ""
    /\ \E i \in 1..Len(extract) : HeadwordLine(extract[i], word.val)
    /\ \A i \in 1..Len(extract) :
         \/ Strip(extract[i]) = ""
         \/ StartsWith(Strip(extract[i]), "==")
         \/ HeadwordLine(extract[i], word.val)

\* C9: the parser returns nothing for an extract whose lines are headers and
\* the queried word itself, with or without a bracketed annotation.
C9_HeadwordRejected ==
    pst.phase = "done" /\ HeadwordOnly(pst.extract, pst.word) => ~pst.out.found

Punctuation == CharSet(".,;:!?") \cup SpaceChars
RECURSIVE RStripPunct(_)
RStripPunct(s) ==
    IF s # "" /\ Ch(s, Len(s)) \in Punctuation THEN RStripPunct(SubSeq(s, 1, Len(s) - 1)) ELSE s
SameAsWord(definition, word) == Lower(RStripPunct(definition)) = Lower(word)

\* C10: no call returns a result whose definition is the queried word, apart
\* from case and trailing punctuation.
C10_NotTheWord ==
    \A p \in Procs :
        pc[p] = "done" /\ ret[p].val.found =>
            ~SameAsWord(ret[p].val.val.definition, args[p].word)

\* C11: the text the parser returns is no line that the structured pass
\* rejects inside a definition section (section marker, metadata, headword
\* line, hyphenation, example marker).
C11_NoSkipLine ==
    pst.phase = "done" /\ pst.out.found => ~RejectedLine(pst.out.val, pst.word)


\* C12: the definition of every result, from the native tier (the string
\* parse_wikt_definition returned), the English tier or the generative
\* tier, is not empty and has at most 300 characters.
C12_DefinitionLength ==
    \A p \in Procs :
        result[p].found =>
            /\ Len(result[p].val.definition) >= 1
            /\ Len(result[p].val.definition) <= 300
            /\ pc[p] = "done" => ret[p] = Returned(result[p])

\* a call returned an English-source definition cut to 300 characters
C12_Witness ==
    \E p \in Procs :
        /\ pc[p] = "done" /\ ret[p].val.found
        /\ ret[p].val.val.source = "english"
        /\ ret[p].val.val.definition = Take(LongText, 300)
        /\ Len(LongText) > 300


\* the cleaned text of the i-th definition of an English answer
CleanAt(defs, i) == strip_html(defs[i].definition)
\* the definitions the English tier stops at: a normal definition, or a
\* boilerplate one whose base word _follow_form_of can look up
StopsAt(defs, i) ==
    /\ CleanAt(defs, i) # ""
    /\ IsFormOfText(CleanAt(defs, i)) => _FORM_OF_RE(CleanAt(defs, i)).found
FirstStop(defs) ==
    IF \E i \in 1..Len(defs) : StopsAt(defs, i)
    THEN CHOOSE i \in 1..Len(defs) :
            StopsAt(defs, i) /\ \A j \in 1..(i - 1) : ~StopsAt(defs, j)
    ELSE 0
EnglishTier == {"english", "follow"}
\* the English-source result of the candidate at hand
AcceptedAs(p, text, pos) ==
    /\ result'[p] = Some([definition |-> Take(text, 300), part_of_speech |-> pos,
                          source |-> "english",
                          url |-> Some("https://en.wiktionary.org/wiki/"
                                       \o EnCandidates(p)[idx[p]])])
    /\ pc'[p] \notin EnglishTier \cup {"llm"}
\* what examining the definitions defs of the candidate at hand leads to
ExpectScan(p, defs) ==
    LET k == FirstStop(defs) IN
    IF k = 0
    THEN /\ result'[p] = None
         /\ IF idx[p] < Len(EnCandidates(p))
            THEN pc'[p] = "english" /\ idx'[p] = idx[p] + 1
            ELSE pc'[p] = "llm"
    ELSE IF ~IsFormOfText(CleanAt(defs, k))
    THEN AcceptedAs(p, CleanAt(defs, k), defs[k].partOfSpeech)
    ELSE /\ result'[p] = None
         /\ pc'[p] = "follow" /\ idx'[p] = idx[p]
         /\ pend'[p].base_word = _FORM_OF_RE(CleanAt(defs, k)).val
         /\ pend'[p].pos = defs[k].partOfSpeech
         /\ pend'[p].rest = SubSeq(defs, k + 1, Len(defs))
\* what the answer o to the lookup of the base word leads to
ExpectFollow(p, o) ==
    LET followed == fetch_english_definition(o) IN
    IF followed.found /\ followed.val # ""
    THEN AcceptedAs(p, followed.val, pend[p].pos)
    ELSE ExpectScan(p, pend[p].rest)

\* C13: the English tier examines the non-empty definitions of a candidate
\* in source order; a normal definition is accepted at once; a form-of
\* definition is followed, the definition of its base word becomes the
\* result if there is one, else the form-of definition is skipped and the
\* next definition is examined; once a result exists no further request is
\* made.
C13_FormOfHandling ==
    [][\A p \in Procs :
        /\ (pc[p] = "english" /\ log'[p] # log[p]) =>
              \E o \in TierEnglishOutcomes :
                  ExpectScan(p, IF o.kind = "data" THEN o.defs ELSE <<>>)
        /\ (pc[p] = "follow" /\ log'[p] # log[p]) =>
              \E o \in TierEnglishOutcomes : ExpectFollow(p, o)
        /\ result[p].found => (log'[p] = log[p] \/ log'[p] = <<>>)
        /\ pc'[p] \in EnglishTier => ~result'[p].found]_vars

\* a call returned the definition of a base word, found after an earlier
\* form-of definition of the same answer could not be followed
C13_Witness ==
    \E p \in Procs :
        /\ pc[p] = "done" /\ ret[p].val.found
        /\ ret[p].val.val.source = "english"
        /\ Len(log[p]) >= 3
        /\ log[p][Len(log[p])].tier = "formof"
        /\ log[p][Len(log[p]) - 1].tier = "formof"


\* the English-source requests of a call, direct and for a base word
LookupCount(l) == Len(SelectSeq(l, LAMBDA e : e.tier = "formof"))

\* C14: _follow_form_of looks a base word up only for a text that matches
\* _FORM_OF_RE, with exactly one lookup, of the captured word; it returns
\* the definition that lookup found, if any, even when that definition is
\* itself form-of boilerplate (no second hop), and nothing otherwise.
C14_FollowFormOf ==
    [][\A p \in Procs :
        /\ LookupCount(log'[p]) > LookupCount(log[p]) =>
              /\ pc[p] = "follow"
              /\ _FORM_OF_RE(pend[p].text) = Some(pend[p].base_word)
              /\ log'[p] = Append(log[p], Req("formof", Lower(pend[p].base_word)))
              /\ \E o \in TierEnglishOutcomes :
                    LET defn == fetch_english_definition(o) IN
                    IF defn.found /\ defn.val # ""
                    THEN /\ result'[p].found
                         /\ result'[p].val.definition = Take(defn.val, 300)
                    ELSE /\ result'[p].found =>
                               \E i \in 1..Len(pend[p].rest) :
                                   result'[p].val.definition =
                                       Take(CleanAt(pend[p].rest, i), 300)
                         /\ pc'[p] = "follow" => Len(pend'[p].rest) < Len(pend[p].rest)
        /\ (pc[p] = "follow" /\ pc'[p] # "follow") =>
              LookupCount(log'[p]) = LookupCount(log[p]) + 1]_vars

\* a call returned what the lookup of the base word found, a text that is
\* form-of boilerplate itself, after one lookup
C14_Witness ==
    \E p \in Procs :
        /\ pc[p] = "done" /\ ret[p].val.found
        /\ _FORM_OF_RE(ret[p].val.val.definition).found
        /\ LookupCount(log[p]) = 1
        /\ log[p][Len(log[p])].tier = "formof"


\* fetch_llm_definition was invoked in the call of p
LlmInvoked(p) == HasTier(log[p], {"llm_call"})

\* C15: fetch_llm_definition sends a request only when the API key is set
\* and the language is in LLM_LANG_NAMES; when the key is absent, or the
\* language is not in the list, it sends no request and returns nothing.
C15_GenerativeGate ==
    \A p \in Procs :
        /\ HasTier(log[p], {"llm"}) =>
              api_key /\ args[p].lang_code \in DOMAIN LLM_LANG_NAMES
        /\ (LlmInvoked(p) /\ (~api_key \/ args[p].lang_code \notin DOMAIN LLM_LANG_NAMES)) =>
              /\ ~HasTier(log[p], {"llm"})
              /\ ret[p] = Returned(None)
        /\ (LlmInvoked(p) /\ api_key /\ args[p].lang_code \in DOMAIN LLM_LANG_NAMES) =>
              HasTier(log[p], {"llm"})

\* fetch_llm_definition was invoked with the key set for a language that is
\* not in the list, and the call returned nothing
C15_Witness ==
    \E p \in Procs :
        /\ pc[p] = "done" /\ LlmInvoked(p)
        /\ api_key /\ args[p].lang_code \notin DOMAIN LLM_LANG_NAMES
        /\ ret[p] = Returned(None)


\* the number of direct English-source requests among the first j entries
EnglishBefore(l, j) == Cardinality({i \in 1..j : l[i].tier = "english"})
\* the base-word lookups made while resolving the k-th English candidate
LookupsFor(l, k) ==
    Cardinality({j \in 1..Len(l) : l[j].tier = "formof" /\ EnglishBefore(l, j) = k})
\* the English-source requests made for the k-th English candidate
EnglishRequestsFor(l, k) == 1 + LookupsFor(l, k)
\* the requests of one tier are the first candidates, one request each
OnePerCandidate(l, tier, candidates) ==
    LET titles == TitlesOf(l, tier) IN
    /\ Len(titles) <= Len(candidates)
    /\ titles = SubSeq(candidates, 1, Len(titles))
\* the definitions of the answers that are form-of boilerplate
FormOfCount(defs) ==
    Cardinality({i \in 1..Len(defs) : IsFormOfText(CleanAt(defs, i))})
MaxFormOf ==
    LET counts == {FormOfCount(o.defs) : o \in {a \in TierEnglishOutcomes : a.kind = "data"}}
    IN  CHOOSE n \in counts : \A m \in counts : m <= n
NativeAndLlmBound(p) ==
    /\ OnePerCandidate(log[p], "native", NativeCandidates(p))
    /\ OnePerCandidate(log[p], "english", EnCandidates(p))
    /\ Len(TitlesOf(log[p], "llm")) <= 1

C17_StartsWithWord ==
    /\ gen.phase # "raised"
    /\ gen.phase = "done" => (gen.candidates # <<>> /\ gen.candidates[1] = gen.word)

\* the rules of the language of the call at hand
GenSuffixes == GetList(LEMMA_SUFFIXES, gen.lang_code)
GenRules == GetList(LEMMA_STRIP_RULES, gen.lang_code)
\* what is left of the word when the suffix of rule i is removed
Stem(i) == SubSeq(gen.word, 1, Len(gen.word) - Len(GenRules[i][1]))
StrippedForm(i) == Stem(i) \o GenRules[i][2]
RuleMatches(i) ==
    /\ Len(gen.word) >= Len(GenRules[i][1])
    /\ EndsWith(Lower(gen.word), GenRules[i][1])

\* C18: a stripped form is added for a rule only if the word ends with the
\* suffix of the rule and the stem left after removing the suffix has at
\* least 2 characters.
C18_StemAtLeastTwo ==
    [][(gen.phase = "strip" /\ Len(gen'.candidates) > Len(gen.candidates)) =>
          /\ RuleMatches(gen.i)
          /\ Len(Stem(gen.i)) >= 2]_vars

\* C19: the list of _build_candidates holds no string twice.
C19_NoDuplicates ==
    gen.phase = "done" =>
        \A i, j \in 1..Len(gen.candidates) :
            gen.candidates[i] = gen.candidates[j] => i = j

\* the first letter of the word is lowercase
LowerInitial == Ch(gen.word, 1) \in LowerChars \cup UncasedLowerChars
TitleVariant == UpperCh(Ch(gen.word, 1)) \o From(gen.word, 2)
\* the positions of the list before the suffix additions, and before the
\* stripped forms
HeadLen == IF LowerInitial THEN 2 ELSE 1
AddedLen == HeadLen + Len(GenSuffixes)

\* C20: the returned list is the word, then the title variant if the word
\* starts with a lowercase letter, then the suffix additions in the order
\* of the table, then stripped forms in the order of the table; with no
\* table for the language it is <<word, title variant>> or <<word>>.
C20_CandidateOrder ==
    gen.phase = "done" =>
        LET c == gen.candidates IN
        /\ Len(c) >= AddedLen
        /\ c[1] = gen.word
        /\ LowerInitial => c[2] = TitleVariant
        /\ \A i \in 1..Len(GenSuffixes) : c[HeadLen + i] = gen.word \o GenSuffixes[i]
        /\ \A j \in (AddedLen + 1)..Len(c) :
              \E a \in 1..Len(GenRules) : RuleMatches(a) /\ c[j] = StrippedForm(a)
        /\ \A j, k \in (AddedLen + 1)..Len(c) :
              j < k => \E a, b \in 1..Len(GenRules) :
                          /\ a < b
                          /\ RuleMatches(a) /\ c[j] = StrippedForm(a)
                          /\ RuleMatches(b) /\ c[k] = StrippedForm(b)
        /\ (GenSuffixes = <<>> /\ GenRules = <<>>) =>
              c = IF LowerInitial THEN <<gen.word, TitleVariant>> ELSE <<gen.word>>
        /\ Returned(c) = _build_candidates(gen.word, gen.lang_code)

\* a call returned the word, its title variant and two stripped forms
C20_Witness ==
    /\ gen.phase = "done"
    /\ LowerInitial
    /\ Len(gen.candidates) >= AddedLen + 2


\* the keys other than the key of the call of p
OtherKeys(p) ==
    {k \in ScopeLangs \X ScopeWords :
        k[1] # args[p].lang_code \/ Lower(k[2]) # Lower(args[p].word)}

\* C21: a call for (L1, W1) neither reads nor changes the cache entry of a
\* key (L2, W2) with another language or another lowercased word.
C21_ScopedByKey ==
    [][\A p \in SeqProcs :
        pc[p] \notin AtRest =>
            \A k \in OtherKeys(p) :
                /\ cache'[CacheKey(k[1], k[2])] = cache[CacheKey(k[1], k[2])]
                /\ (pc[p] = "check" /\ chk'[p].seen # Absent) =>
                      KeyOf(p) # CacheKey(k[1], k[2])]_vars


\* the cache check of the call of p found a malformed file
SawMalformed(p) == pc[p] \notin {"idle", "check"} /\ chk[p].seen \in MalformedFiles

\* C22: a call that finds a malformed file for its key raises nothing,
\* resolves through the tiers as on a miss, and leaves the entry holding the
\* outcome of that resolution.
C22_MalformedIsMiss ==
    [][\A p \in Procs :
        (args[p].cache_dir /\ SawMalformed(p) /\ pc[p] \notin AtRest) =>
            /\ chk[p].hit = "miss"
            /\ pc'[p] # "raised"
            /\ pc'[p] = "done" =>
                  /\ HasTier(log'[p], {"native"})
                  /\ cache'[KeyOf(p)] = CacheContent(ret'[p].val, now)]_vars


\* C23: a call for a day that some earlier call, made when the day was not
\* in the future, has returned a word for, returns that word, whatever the
\* lists are by then; only calls for a day that is not in the future write
\* to the history.
C23_HistoryFrozen ==
    \A p \in Procs :
        /\ (dw[p].pc = "done" /\ dw[p].prior.found) => dw[p].ret = dw[p].prior
        /\ dw[p].pc \in {"open", "write"} => dw[p].day <= today


\* the native-source requests made so far in the call of p
NativeAsked(p) == Len(TitlesOf(log[p], "native"))
\* the extract of the answer o parses with the candidate as the word
ParsesFor(o, try_word) ==
    /\ o.kind = "page"
    /\ ~BlankExtract(o.extract)
    /\ Truthy(parse_wikt_definition(o.extract, Some(try_word)))

\* C24: fetch_native_wiktionary requests the candidates in list order; a
\* candidate whose request fails, has no page text or does not parse is
\* passed over and the next one is requested; the first candidate whose
\* extract parses gives the result, and no candidate is requested after it.
C24_NativeIteration ==
    [][\A p \in Procs :
        /\ NativeAsked(p)' > NativeAsked(p) =>
              LET c == NativeCandidates(p)
                  k == NativeAsked(p) + 1
              IN  /\ ~result[p].found
                  /\ k <= Len(c)
                  /\ log'[p] = Append(log[p], Req("native", c[k]))
                  /\ \E o \in TierNativeOutcomes :
                        IF ParsesFor(o, c[k])
                        THEN /\ result'[p] =
                                  Some([definition |->
                                            parse_wikt_definition(o.extract, Some(c[k])).val,
                                        source |-> "native",
                                        url |-> Some("https://" \o WiktLang(args[p].lang_code)
                                                     \o ".wiktionary.org/wiki/" \o c[k])])
                             /\ pc'[p] # "native"
                        ELSE /\ ~result'[p].found
                             /\ pc'[p] = IF k < Len(c) THEN "native" ELSE "english"
        /\ (pc[p] = "native" /\ pc'[p] # "native") =>
              NativeAsked(p)' = NativeAsked(p) + 1 \/ pc'[p] = "raised"]_vars

\* a call returned the definition of its second candidate after the first
\* one gave none
C24_Witness ==
    \E p \in Procs :
        /\ pc[p] = "done" /\ ret[p].val.found
        /\ ret[p].val.val.source = "native"
        /\ NativeAsked(p) = 2
        /\ Len(log[p]) = 2


\* a recognized part-of-speech header or plain-text definition marker
OpensSection(line) == defn_headers(line) \/ defn_text_markers(line)
\* a non-definition header or an end-of-section marker
ClosesSection(line) == ~OpensSection(line) /\ (end_markers(line) \/ AnyHeader(line))

\* C25: the section flag of the structured pass is false at the start,
\* becomes true exactly at a recognized header or definition marker and false
\* at a non-definition header or end marker, and the pass returns only a
\* line read while the flag is true.
C25_SectionFlag ==
    [][/\ (pst.phase # "structured" /\ pst'.phase = "structured") => ~pst'.flag
       /\ (pst.phase = "structured" /\ pst.i <= Len(pst.extract) /\ pst' # pst) =>
             LET line == Strip(pst.extract[pst.i]) IN
             /\ pst'.phase = "structured" =>
                   pst'.flag = (OpensSection(line) \/ (pst.flag /\ ~ClosesSection(line)))
             /\ pst'.out.found =>
                   pst.flag /\ ~OpensSection(line) /\ ~ClosesSection(line)]_vars

\* the structured pass returned a line after passing over an earlier line
\* that it would have returned inside a definition section
C25_Witness ==
    /\ pst.phase = "done" /\ pst.out.found
    /\ pst.out = StructuredFrom(pst.extract, 1, pst.word, FALSE)
    /\ \E j \in 1..(pst.i - 1) :
          LET line == Strip(pst.extract[j]) IN
          /\ ~OpensSection(line) /\ ~ClosesSection(line)
          /\ DefinitionLine(line, pst.word).found
    /\ \E j \in 1..(pst.i - 1) : ClosesSection(Strip(pst.extract[j]))


\* the structured pass returned the line at pst.i
StructuredReturn ==
    /\ pst.phase = "done" /\ pst.out.found
    /\ pst.out = StructuredFrom(pst.extract, 1, pst.word, FALSE)
ReturnedLine == Strip(pst.extract[pst.i])
\* the text after the numeric sense marker of a line, by each convention
Unwrapped(line) ==
    {s.val : s \in {s \in {BracketSense(line), DottedSense(line), BareSense(line)} : s.found}}

\* C26: a line numbered "[1] text", "(1.2) text" or "1 text" is returned
\* only as its unwrapped text and only if that text has more than 5
\* characters.
C26_NumberedMinLength ==
    StructuredReturn =>
        \A text \in Unwrapped(ReturnedLine) :
            Len(text) > 5 /\ pst.out.val = Take(Strip(text), 300)


\* the rules of one table are listed longest suffix first
LongestFirst(rules) ==
    \A i \in 1..Len(rules), j \in 1..Len(rules) :
        i < j => Len(rules[i][1]) >= Len(rules[j][1])

\* C27: in the table of LEMMA_STRIP_RULES that a call of _build_candidates
\* works through, whatever the language, an earlier rule has a suffix at
\* least as long as that of every later rule.
C27_LongestSuffixFirst ==
    gen.phase # "idle" => LongestFirst(GenRules)


\* the call of p returned an English-source result whose definition matches
\* the form-of pattern of the orchestrator
FormOfReturned(p) ==
    /\ pc[p] = "done" /\ ret[p].val.found
    /\ ret[p].val.val.source = "english"
    /\ IsFormOfText(ret[p].val.val.definition)

C29_MarkerRemoved ==
    StructuredReturn => Unwrapped(pst.out.val) = {}


\* the total stored for today's word
StoredTotal == IF sfile.found THEN sfile.val ELSE 0
\* the distinct (language, day, IP) keys of the requests answered 200
DistinctKeys == {accepted[i] : i \in 1..Len(accepted)}

\* C30: when no request is in progress, the stored total of today's word is
\* the number of distinct (language, day, IP) keys among the accepted
\* requests: none is lost and none is counted twice.
C30_CountedOnce ==
    (\A p \in Procs : sw[p].pc = "idle") => StoredTotal = Cardinality(DistinctKeys)

=============================================================================
